---- MODULE Spec2Model ----
(***************************************************************************)
(* A model of the particle simulation engine (engine.py, randomizer.py,    *)
(* utils.py) and of a sequential caller that builds engines and runs them. *)
(*                                                                         *)
(* Numbers.  Every float of the program is a fixed-point integer counted   *)
(* in units of 1/Scale; the result of every arithmetic operation is        *)
(* rounded toward zero to a whole number of units.  Distances are the      *)
(* integer square roots of exact sums of squares.                          *)
(*                                                                         *)
(* Memory.  numpy arrays and State objects live in a heap (arrays, objs)   *)
(* and are named by their index, so that in-place updates (the augmented  *)
(* assignments and the in-place clip), rebinding of a field of State and   *)
(* copy.deepcopy are told apart.                                           *)
(***************************************************************************)
EXTENDS Integers, Sequences, FiniteSets, TLC

\* ------------------------------------------------------------------------
\* Program constants
\* ------------------------------------------------------------------------

\* EPSILON = 0.001 = 1 / EpsilonDen
EpsilonDen == 1000

\* SEED = 133713371337 = SeedHi * 10^6 + SeedLo
SeedHi == 133713

SeedLo == 371337

\* SPACE_DIMENSIONS, the d of every (n, d) array
Dim == 2

\* number of columns the engine requires of Config.uw
UwColumns == 4

\* ------------------------------------------------------------------------
\* Bounds of the model
\* ------------------------------------------------------------------------

\* largest number of particles N
MaxN == 2

\* largest number of predators M
MaxM == 1

\* largest value of the `iterations` argument of run
MaxIter == 2

\* ------------------------------------------------------------------------
\* Fixed-point arithmetic
\* ------------------------------------------------------------------------

\* units per 1.0: half an EPSILON is one unit
Scale == 2 * EpsilonDen

\* EPSILON in units
EPSILON == Scale \div EpsilonDen

\* a / b rounded toward zero, b > 0
Div(a, b) == IF a >= 0 THEN a \div b ELSE -((-a) \div b)

\* float product x * y
Mul(x, y) == Div(x * y, Scale)

\* float quotient x / y, y # 0
Quot(x, y) == IF y > 0 THEN Div(x * Scale, y) ELSE -Div(x * Scale, -y)

Abs(x) == IF x >= 0 THEN x ELSE -x

RECURSIVE SqrtSearch(_, _, _)
\* largest r in lo..hi with r * r <= n, given lo * lo <= n
SqrtSearch(n, lo, hi) ==
    IF lo >= hi THEN lo
    ELSE LET mid == (lo + hi + 1) \div 2
         IN  IF mid * mid <= n THEN SqrtSearch(n, mid, hi)
             ELSE SqrtSearch(n, lo, mid - 1)

\* floor of the square root of n >= 0 (n counted in squared units)
ISqrt(n) == SqrtSearch(n, 0, 46340)

\* ceiling of the square root of n >= 0
CeilSqrt(n) == LET r == ISqrt(n) IN IF r * r = n THEN r ELSE r + 1

RECURSIVE PowInt(_, _)
\* x ** k for a whole k >= 0
PowInt(x, k) == IF k = 0 THEN Scale ELSE Mul(PowInt(x, k - 1), x)

\* math.pow(x, t) for x >= 0 and t a whole number of halves
Pow(x, t) ==
    LET whole == PowInt(x, t \div Scale)
    IN  IF (t % Scale) * 2 = Scale THEN Mul(whole, ISqrt(x * Scale)) ELSE whole

\* ------------------------------------------------------------------------
\* numpy arrays: an (n, d) array is a sequence of n rows of d numbers
\* ------------------------------------------------------------------------

\* the sequence s with every element computed (a tuple, not a rule)
Tab(s) == s \o <<>>

RECURSIVE SumTo(_, _)
\* f[1] + ... + f[n]
SumTo(f, n) == IF n = 0 THEN 0 ELSE f[n] + SumTo(f, n - 1)

\* the row of d zeros
ZeroRow == Tab([k \in 1..Dim |-> 0])

\* np.zeros((n, Dim))
Zeros(n) == Tab([i \in 1..n |-> ZeroRow])

\* array.shape
Shape(m) == <<Len(m), IF Len(m) = 0 THEN Dim ELSE Len(m[1])>>

\* np.sum(row ** 2), in squared units
SumSq(row) == SumTo([k \in 1..Len(row) |-> row[k] * row[k]], Len(row))

\* elementwise x + y, x - y, x * y of equal shapes
MatAdd(x, y) ==
    Tab([i \in 1..Len(x) |-> Tab([k \in 1..Len(x[i]) |-> x[i][k] + y[i][k]])])

MatSub(x, y) ==
    Tab([i \in 1..Len(x) |-> Tab([k \in 1..Len(x[i]) |-> x[i][k] - y[i][k]])])

MatMul(x, y) ==
    Tab([i \in 1..Len(x) |-> Tab([k \in 1..Len(x[i]) |-> Mul(x[i][k], y[i][k])])])

\* x * c for a scalar c
MatScale(x, c) ==
    Tab([i \in 1..Len(x) |-> Tab([k \in 1..Len(x[i]) |-> Mul(x[i][k], c)])])

\* x / c for a scalar c
MatQuot(x, c) ==
    Tab([i \in 1..Len(x) |-> Tab([k \in 1..Len(x[i]) |-> Quot(x[i][k], c)])])

\* x * col.reshape((-1, 1)): row i of x times the number col[i]
MatScaleRows(x, col) ==
    Tab([i \in 1..Len(x) |-> Tab([k \in 1..Len(x[i]) |-> Mul(x[i][k], col[i])])])

\* cdist with metric='sqeuclidean': the squared distances
Cdist_Sqeuclidean(x, y) ==
    Tab([i \in 1..Len(x) |-> Tab([j \in 1..Len(y) |->
        Div(SumSq(Tab([k \in 1..Dim |-> x[i][k] - y[j][k]])), Scale)])])

\* scipy.spatial.distance.cdist(x, y); squareform(pdist(x)) is Cdist(x, x)
Cdist(x, y) ==
    Tab([i \in 1..Len(x) |-> Tab([j \in 1..Len(y) |->
        ISqrt(SumSq(Tab([k \in 1..Dim |-> x[i][k] - y[j][k]])))])])

\* ------------------------------------------------------------------------
\* utils.py
\* ------------------------------------------------------------------------

\* a clip of each component to [-max_abs, max_abs]: a box, not a disk
ClipRow_Box(row, max_abs) ==
    Tab([k \in 1..Len(row) |->
        IF row[k] > max_abs THEN max_abs
        ELSE IF row[k] < -max_abs THEN -max_abs ELSE row[k]])

\* one row of the in-place clip: a row whose sum of squares exceeds
\* max_abs ** 2 is divided by sqrt(sum_of_squares) / max_abs
ClipRow(row, max_abs) ==
    LET ss == SumSq(row)
    IN  IF ss > max_abs * max_abs
        THEN LET root == CeilSqrt(ss)
             IN  Tab([k \in 1..Len(row) |-> Div(row[k] * max_abs, root)])
        ELSE row

\* np.divide without out=input: the quotient is dropped, the array is kept
inplace_clip_by_abs_Dropped(input, max_abs) == input

\* Utils.inplace_clip_by_abs: the new content of the array
inplace_clip_by_abs(input, max_abs) ==
    Tab([i \in 1..Len(input) |-> ClipRow(input[i], max_abs)])

\* ------------------------------------------------------------------------
\* randomizer.py
\* ------------------------------------------------------------------------

\* number of states of the bit generator behind np.random.default_rng
RngMod == 2048

\* the state default_rng(seed=SEED) starts from
SeedState == (SeedHi + SeedLo) % RngMod

\* the bit generator g = <<multiplier, increment>> advances its state
RngNext(g, s) == (g[1] * s + g[2]) % RngMod

RECURSIVE RngAfter(_, _, _)
\* the state after n numbers have been drawn from state s
RngAfter(g, s, n) == IF n = 0 THEN s ELSE RngNext(g, RngAfter(g, s, n - 1))

\* the number in [0, 1) that a state yields
RngUniform(s) == (s * Scale) \div RngMod

\* how many numbers an array of this shape holds
Size(shape) == shape[1] * shape[2]

\* rng.random(size=shape) drawn from state s, filled row by row
random(g, s, shape) ==
    Tab([i \in 1..shape[1] |-> Tab([k \in 1..shape[2] |->
        RngUniform(RngAfter(g, s, (i - 1) * shape[2] + k))])])

\* Randomizer.gen_random_matrix
gen_random_matrix(g, s, shape, min_value, max_value) ==
    LET r == random(g, s, shape)
    IN  Tab([i \in 1..shape[1] |-> Tab([k \in 1..shape[2] |->
            Mul(max_value - min_value, r[i][k]) + min_value])])

\* an epsilon matrix drawn with ten times EPSILON
gen_epsilon_matrix_Wide(g, s, shape) ==
    gen_random_matrix(g, s, shape, Scale - 10 * EPSILON, Scale + 10 * EPSILON)

\* Randomizer.gen_epsilon_matrix
gen_epsilon_matrix(g, s, shape) ==
    gen_random_matrix(g, s, shape, Scale - EPSILON, Scale + EPSILON)

\* ------------------------------------------------------------------------
\* engine.py: the urgencies.  p and pred_p are the contents of the position
\* arrays, cfg is the Config, eps the epsilon matrix the function draws.
\* ------------------------------------------------------------------------

\* column c of x (x[:, c - 1] in the source's zero-based indexing)
Column(x, c) == Tab([i \in 1..Len(x) |-> x[i][c]])

\* weights @ x for an (n, m) array of weights and an (m, d) array x
Matmul(weights, x) ==
    Tab([i \in 1..Len(weights) |-> Tab([k \in 1..Dim |->
        SumTo([j \in 1..Len(x) |-> Mul(weights[i][j], x[j][k])], Len(x))])])

\* the same with the difference taken as y - x[:, np.newaxis]
WeightedVectors_Toward(weights, x, y) ==
    Tab([i \in 1..Len(x) |-> Tab([k \in 1..Dim |->
        SumTo([j \in 1..Len(y) |-> Mul(weights[i][j], y[j][k] - x[i][k])], Len(y))])])

\* np.matmul(weights.reshape((n, 1, m)), x[:, np.newaxis] - y).reshape(n, -1):
\* row i is the sum over j of weights[i][j] * (x[i] - y[j])
WeightedVectors(weights, x, y) ==
    Tab([i \in 1..Len(x) |-> Tab([k \in 1..Dim |->
        SumTo([j \in 1..Len(y) |-> Mul(weights[i][j], x[i][k] - y[j][k])], Len(y))])])

\* a mask that keeps the zero distances
InRange_ZeroIncluded(distances, limit) ==
    Tab([i \in 1..Len(distances) |-> Tab([j \in 1..Len(distances[i]) |->
        distances[i][j] >= 0 /\ distances[i][j] <= limit])])

\* the in_range mask of all three urgencies
InRange(distances, limit) ==
    Tab([i \in 1..Len(distances) |-> Tab([j \in 1..Len(distances[i]) |->
        distances[i][j] > 0 /\ distances[i][j] <= limit])])

\* np.count_nonzero(in_range, axis=1)
CountNonzero(in_range) ==
    Tab([i \in 1..Len(in_range) |->
        Cardinality({j \in 1..Len(in_range[i]) : in_range[i][j]})])

\* baricenter weights that divide by the number of other particles
Weights1_AllOthers(distances, cfg) ==
    LET in_range == InRange(distances, cfg.d_max)
    IN  Tab([i \in 1..Len(distances) |-> Tab([j \in 1..Len(distances[i]) |->
            IF in_range[i][j] THEN Quot(Scale, (Len(distances) - 1) * Scale) ELSE 0])])

\* the baricenter weights of urgency 1: 1.0 / count where in range, else 0
Weights1(distances, cfg) ==
    LET in_range == InRange(distances, cfg.d_max)
        count    == CountNonzero(in_range)
    IN  Tab([i \in 1..Len(distances) |-> Tab([j \in 1..Len(distances[i]) |->
            IF in_range[i][j] THEN Quot(Scale, count[i] * Scale) ELSE 0])])

\* urgency 1 before epsilon and weights: baricenters - p
Urgency1Vector(p, cfg) == MatSub(Matmul(Weights1(Cdist(p, p), cfg), p), p)

\* urgency 1 given the epsilon matrix: times eps, u1_p and column 0 of uw
Urgency1(p, cfg, eps) ==
    MatScaleRows(MatScale(MatMul(Urgency1Vector(p, cfg), eps), cfg.u1_p),
                 Column(cfg.uw, 1))

\* repulsion weights without the division by the distance that makes the
\* distance vector a unit vector
RepelWeights_Unnormalised(distances, limit) ==
    LET in_range == InRange(distances, limit)
    IN  Tab([i \in 1..Len(distances) |-> Tab([j \in 1..Len(distances[i]) |->
            IF in_range[i][j]
            THEN Quot(limit - distances[i][j], limit)
            ELSE 0])])

\* the repulsion weights of urgencies 2 and 4:
\* (limit - distance) / (limit * distance) where in range, else 0
RepelWeights(distances, limit) ==
    LET in_range == InRange(distances, limit)
    IN  Tab([i \in 1..Len(distances) |-> Tab([j \in 1..Len(distances[i]) |->
            IF in_range[i][j]
            THEN Quot(limit - distances[i][j], Mul(limit, distances[i][j]))
            ELSE 0])])

\* urgency 2 before epsilon and weights
Urgency2Vector(p, cfg) ==
    WeightedVectors(RepelWeights(Cdist(p, p), cfg.u2_dopt), p, p)

\* urgency 2 given the epsilon matrix: times eps, u2_p and column 1 of uw
Urgency2(p, cfg, eps) ==
    MatScaleRows(MatScale(MatMul(Urgency2Vector(p, cfg), eps), cfg.u2_p),
                 Column(cfg.uw, 2))

\* an urgency 4 left as it was copied from urgency 2: the distances are
\* those between the particles
Urgency4Vector_CopyPaste(p, pred_p, cfg) ==
    WeightedVectors(RepelWeights(Cdist(p, p), cfg.u4_dmax), p, p)

\* urgency 4 before epsilon and weights
Urgency4Vector(p, pred_p, cfg) ==
    WeightedVectors(RepelWeights(Cdist(p, pred_p), cfg.u4_dmax), p, pred_p)

\* an urgency 4 with the sign of urgency 1: predator minus particle
Urgency4_Attract(p, pred_p, cfg, eps) ==
    MatScaleRows(MatScale(MatMul(MatSub(Zeros(Len(p)), Urgency4Vector(p, pred_p, cfg)),
                                 eps), cfg.u4_p),
                 Column(cfg.uw, 4))

\* urgency 4 given the epsilon matrix: times eps, u4_p and column 3 of uw
Urgency4(p, pred_p, cfg, eps) ==
    MatScaleRows(MatScale(MatMul(Urgency4Vector(p, pred_p, cfg), eps), cfg.u4_p),
                 Column(cfg.uw, 4))

\* ------------------------------------------------------------------------
\* The inputs a caller builds (examples.py, main.py)
\* ------------------------------------------------------------------------

\* the engines the caller builds, one after the other
Engines == {1, 2}

\* the fields of State, in declaration order
Fields == <<"p", "v", "a", "pred_p", "pred_v", "pred_a">>

\* the values of `skip_initial_states` tried with a given `iterations`:
\* negative, zero, within the run, and beyond its end
SkipVals(iterations) == -1..(iterations + 1)

\* lattice spacings of the initial positions: 0, 0.5, 1.5 and 6.0
SpacingVals == {0, Scale \div 2, 3 * (Scale \div 2), 6 * Scale}

\* the callers considered.  A caller fixes the bit generator of its numpy
\* (as <<multiplier, increment>>), where its lattice starts, which
\* configuration it builds ("example": the values of examples.py, "slow":
\* the second configuration) and the timestep it runs with (0.5 or 1.0)
Callers ==
    { [bitgen |-> <<5, 3>>, origin |-> <<0, 0>>, kind |-> "example",
       timestep |-> Scale \div 2],
      [bitgen |-> <<13, 7>>, origin |-> <<-3 * (Scale \div 4), 2 * (Scale \div 5)>>,
       kind |-> "example", timestep |-> Scale],
      [bitgen |-> <<13, 7>>, origin |-> <<0, 0>>, kind |-> "slow",
       timestep |-> Scale],
      [bitgen |-> <<5, 3>>, origin |-> <<-3 * (Scale \div 4), 2 * (Scale \div 5)>>,
       kind |-> "slow", timestep |-> Scale \div 2] }

\* the initial velocity every particle gets: at rest, or faster than v_max
VelVals == {<<0, 0>>, <<6 * Scale, -5 * (Scale \div 2)>>}

\* the kinematics the first predator may start with: a sweep at constant
\* velocity as in Grid2DWithPredator, or an accelerated one
PredVals ==
    { [p |-> <<2 * Scale, 0>>, v |-> <<-Scale, 0>>, a |-> <<0, 0>>],
      [p |-> <<-3 * (Scale \div 2), Scale \div 2>>,
       v |-> <<Scale \div 2, Scale \div 2>>,
       a |-> <<Scale \div 10, -(Scale \div 5)>>] }

\* predator j starts next to the first one, with the same velocity
InitialPred(m, pred, field) ==
    Tab([j \in 1..m |-> Tab([k \in 1..Dim |->
        IF field = "p" THEN pred.p[k] + (j - 1) * (Scale \div 4) ELSE pred[field][k]])])

\* corner number i of the unit lattice, as _cartesian enumerates a grid
LatticePoint(i) == Tab([k \in 1..Dim |-> ((i - 1) \div (2 ^ (k - 1))) % 2])

\* Grid._create_initial_particle_state: n particles on a lattice
InitialP(n, origin, spacing) ==
    Tab([i \in 1..n |-> Tab([k \in 1..Dim |-> origin[k] + spacing * LatticePoint(i)[k]])])

\* _create_base_config with the values of examples.py; uw is drawn from a
\* Randomizer of its own, with the columns the engine asks for
ExampleConfig(g, n) ==
    [ v_max |-> 5 * Scale, v_decay |-> 9 * (Scale \div 10), a_max |-> Scale,
      d_max |-> 15 * (Scale \div 2), u_max |-> 5 * Scale, u1_p |-> Scale,
      u2_p |-> 3 * Scale, u2_dopt |-> Scale, u4_p |-> 10 * Scale,
      u4_dmax |-> 3 * Scale,
      uw |-> gen_random_matrix(g, SeedState, <<n, UwColumns>>,
                               9 * (Scale \div 10), Scale) ]

\* a second configuration: slow particles, no velocity decay, no personal
\* space (u2_dopt = 0), unit weights
SlowConfig(n) ==
    [ v_max |-> Scale \div 2, v_decay |-> Scale, a_max |-> 2 * Scale,
      d_max |-> 2 * Scale, u_max |-> Scale, u1_p |-> Scale,
      u2_p |-> Scale, u2_dopt |-> 0, u4_p |-> Scale,
      u4_dmax |-> 5 * Scale,
      uw |-> Tab([i \in 1..n |-> Tab([c \in 1..UwColumns |-> Scale])]) ]

\* _create_base_config as examples.py writes it: uw has three columns
BaseConfig(g, n) ==
    [ ExampleConfig(g, n) EXCEPT
        !.uw = gen_random_matrix(g, SeedState, <<n, 3>>, 9 * (Scale \div 10), Scale) ]

\* a (rows, columns) array of ones
Ones(rows, columns) == Tab([i \in 1..rows |-> Tab([k \in 1..columns |-> Scale])])

\* input i with one array of another shape: v or a with a row more, a with
\* a column less, uw with a row more, with the three columns of
\* _create_base_config, or with five columns
Misshapen(c, i) ==
    LET n == Len(i.p)
    IN  { [i EXCEPT !.v = Zeros(n + 1)],
          [i EXCEPT !.a = Zeros(n + 1)],
          [i EXCEPT !.a = Tab([k \in 1..n |-> Tab([j \in 1..(Dim - 1) |-> 0])])],
          [i EXCEPT !.cfg.uw = Ones(n + 1, UwColumns)],
          [i EXCEPT !.cfg.uw = BaseConfig(c.bitgen, n).uw],
          [i EXCEPT !.cfg.uw = Ones(n, UwColumns + 1)] }

\* input i with a parameter no simulation is meant to run with: a timestep
\* of zero, a v_decay of 1.5 or of zero, an a_max of zero
OutOfDomain(i) ==
    { [i EXCEPT !.timestep = 0],
      [i EXCEPT !.cfg.v_decay = 3 * (Scale \div 2)],
      [i EXCEPT !.cfg.v_decay = 0],
      [i EXCEPT !.cfg.a_max = 0] }

\* the State and Config values caller c may hand to Engine, with the
\* timestep it will run the engine with
Inputs(c) ==
    LET plain == [n \in 1..MaxN |->
                    [ p |-> InitialP(n, c.origin, Scale \div 2),
                      v |-> Zeros(n),
                      a |-> Zeros(n),
                      pred_p |-> <<>>, pred_v |-> <<>>, pred_a |-> <<>>,
                      cfg |-> IF c.kind = "example" THEN ExampleConfig(c.bitgen, n)
                              ELSE SlowConfig(n),
                      timestep |-> c.timestep ]]
    IN
    UNION {Misshapen(c, plain[n]) : n \in 1..MaxN} \cup
    (IF c.kind = "slow" THEN UNION {OutOfDomain(plain[n]) : n \in 1..MaxN} ELSE {}) \cup
    { [ p |-> InitialP(n, c.origin, spacing),
        v |-> Tab([i \in 1..n |-> vel]),
        a |-> Zeros(n),
        pred_p |-> InitialPred(m, pred, "p"),
        pred_v |-> InitialPred(m, pred, "v"),
        pred_a |-> InitialPred(m, pred, "a"),
        cfg |-> IF c.kind = "example" THEN ExampleConfig(c.bitgen, n)
                ELSE SlowConfig(n),
        timestep |-> c.timestep ] :
      n \in 1..MaxN, spacing \in SpacingVals, vel \in VelVals,
      m \in 0..MaxM, pred \in PredVals }

\* ------------------------------------------------------------------------
\* State
\* ------------------------------------------------------------------------

VARIABLES
    bitgen,     \* the bit generator of numpy, the same for every Randomizer
    inp,        \* inp[e]: the State and Config values engine e is built from
    arrays,     \* the heap of numpy arrays: arrays[id] is the content
    objs,       \* the heap of State objects: objs[id] maps a field to an array id
    eng_state,  \* eng_state[e]: Engine._state, the id of a State object (0: not built)
    eng_rand,   \* eng_rand[e]: the state of the generator of Engine._rand
    pc,         \* where the program is: in the caller, or at a line of Engine.run
    cur,        \* the engine whose run is executing (0: none)
    args,       \* the arguments of the executing run
    iteration,  \* the loop variable of run
    states,     \* the local list `states` of run: ids of State objects
    draws,      \* the gen_epsilon_matrix calls of the current iteration, in order
    call,       \* call[e]: the arguments the caller ran engine e with, and the
                \* other keywords it passed, as <<name, value>>
    result,     \* result[e]: the EngineRunResult returned for engine e
    mutated,    \* the caller has written into an array of a returned snapshot
    exc,        \* the exception raised to the caller, or NoException
    earlier,    \* earlier[e]: the results of the runs of engine e before its last
    repacked    \* repacked[e]: the histories the caller has repacked for manim

vars == <<bitgen, inp, arrays, objs, eng_state, eng_rand, pc, cur, args,
          iteration, states, draws, call, result, mutated, exc, earlier, repacked>>

\* the content of the arrays of State object o, field by field
View(o) == [f \in {Fields[k] : k \in 1..Len(Fields)} |-> arrays[objs[o][f]]]

NoArgs == [timestep |-> 0, iterations |-> 0, skip_initial_states |-> 0]

NoException == [type |-> "none"]

\* the caller has repacked nothing yet: the four lists name no array
NotRepacked ==
    [ particles |-> FALSE, predators |-> FALSE, p_histories |-> <<>>,
      v_histories |-> <<>>, a_histories |-> <<>>, predator_histories |-> <<>> ]

Init ==
    /\ \E c \in Callers :
          /\ bitgen = c.bitgen
          /\ \E i \in Inputs(c) : inp = [e \in Engines |-> i]
    /\ arrays = <<>>
    /\ objs = <<>>
    /\ eng_state = [e \in Engines |-> 0]
    /\ eng_rand = [e \in Engines |-> 0]
    /\ pc = "caller"
    /\ cur = 0
    /\ args = NoArgs
    /\ iteration = 0
    /\ states = <<>>
    /\ draws = <<>>
    /\ call = [e \in Engines |-> [made |-> FALSE, args |-> NoArgs, kwargs |-> {}]]
    /\ result = [e \in Engines |-> [returned |-> FALSE, states |-> <<>>]]
    /\ mutated = FALSE
    /\ exc = NoException
    /\ earlier = [e \in Engines |-> <<>>]
    /\ repacked = [e \in Engines |-> NotRepacked]

\* ------------------------------------------------------------------------
\* engine.py: construction
\* ------------------------------------------------------------------------

\* a sanity check that does not look at a
InconsistentShapes_NoA(i) ==
    \/ Shape(i.p) # Shape(i.v)
    \/ Shape(i.cfg.uw) # <<Shape(i.p)[1], UwColumns>>

\* the sanity check of Engine.__init__ fails
InconsistentShapes(i) ==
    \/ Shape(i.p) # Shape(i.v)
    \/ Shape(i.p) # Shape(i.a)
    \/ Shape(i.cfg.uw) # <<Shape(i.p)[1], UwColumns>>

\* a Randomizer that takes fresh entropy instead of SEED
Randomizer_Unseeded(e) == (SeedState + e) % RngMod

\* Randomizer() made for engine e: a generator seeded with SEED
Randomizer(e) == SeedState

\* Grid.run builds fresh arrays and a State from them, then Engine(s, cfg):
\* the engine keeps the State object it is given and seeds a Randomizer;
\* inconsistent shapes raise ValueError
Construct(e) ==
    /\ pc = "caller"
    /\ eng_state[e] = 0
    /\ \A e2 \in Engines : e2 < e => result[e2].returned
    /\ LET i == inp[e]
           n == Len(arrays)
       IN  /\ arrays' = arrays \o <<i.p, i.v, i.a, i.pred_p, i.pred_v, i.pred_a>>
           /\ objs' = Append(objs, [p |-> n + 1, v |-> n + 2, a |-> n + 3,
                                    pred_p |-> n + 4, pred_v |-> n + 5,
                                    pred_a |-> n + 6])
           /\ eng_state' = [eng_state EXCEPT ![e] = Len(objs) + 1]
           /\ eng_rand' = [eng_rand EXCEPT ![e] = Randomizer(e)]
           /\ pc' = IF InconsistentShapes(i) THEN "raised" ELSE "caller"
           /\ exc' = IF InconsistentShapes(i)
                     THEN [type |-> "ValueError", p |-> Shape(i.p), v |-> Shape(i.v),
                           a |-> Shape(i.a), uw |-> Shape(i.cfg.uw)]
                     ELSE exc
    /\ UNCHANGED <<bitgen, inp, cur, args, iteration, states, draws, call, result,
                   mutated, earlier, repacked>>

\* ------------------------------------------------------------------------
\* engine.py: one step
\* ------------------------------------------------------------------------

\* one call of self._rand.gen_epsilon_matrix(shape) from generator state s
Draw(s, who, shape) ==
    [ eps  |-> gen_epsilon_matrix(bitgen, s, shape),
      rand |-> RngAfter(bitgen, s, Size(shape)),
      log  |-> [who |-> who, shape |-> shape] ]

\* Engine._calculate_urgency1 on the contents st, from generator state s:
\* the urgency, the generator state afterwards and the draw made
calculate_urgency1(st, cfg, s) ==
    LET d == Draw(s, "u1", Shape(st.p))
    IN  [u |-> Urgency1(st.p, cfg, d.eps), rand |-> d.rand, draws |-> <<d.log>>]

\* an urgency 2 that draws its epsilon matrix only when some particle has
\* another one within u2_dopt
calculate_urgency2_DrawIfInRange(st, cfg, s) ==
    IF \A i, j \in 1..Len(st.p) : ~InRange(Cdist(st.p, st.p), cfg.u2_dopt)[i][j]
    THEN [u |-> Zeros(Len(st.p)), rand |-> s, draws |-> <<>>]
    ELSE LET d == Draw(s, "u2", Shape(st.p))
         IN  [u |-> Urgency2(st.p, cfg, d.eps), rand |-> d.rand, draws |-> <<d.log>>]

\* Engine._calculate_urgency2
calculate_urgency2(st, cfg, s) ==
    LET d == Draw(s, "u2", Shape(st.p))
    IN  [u |-> Urgency2(st.p, cfg, d.eps), rand |-> d.rand, draws |-> <<d.log>>]

\* an urgency 4 that returns early, before its draw, when there is no predator
calculate_urgency4_SkipEmpty(st, cfg, s) ==
    IF Len(st.pred_p) = 0
    THEN [u |-> Zeros(Len(st.p)), rand |-> s, draws |-> <<>>]
    ELSE LET d == Draw(s, "u4", Shape(st.p))
         IN  [u |-> Urgency4(st.p, st.pred_p, cfg, d.eps), rand |-> d.rand,
              draws |-> <<d.log>>]

\* Engine._calculate_urgency4
calculate_urgency4(st, cfg, s) ==
    LET d == Draw(s, "u4", Shape(st.p))
    IN  [u |-> Urgency4(st.p, st.pred_p, cfg, d.eps), rand |-> d.rand,
         draws |-> <<d.log>>]

\* a step that moves the particles before it updates their velocity
apply_urgency_StalePosition(st, cfg, timestep, u_tot, s) ==
    LET a0 == MatScale(MatQuot(u_tot, cfg.u_max), cfg.a_max)
        a1 == inplace_clip_by_abs(a0, cfg.a_max)
        dA == Draw(s, "a", Shape(a1))
        a2 == MatMul(a1, dA.eps)
        v1 == MatScale(st.v, Pow(cfg.v_decay, timestep))
        v2 == MatAdd(v1, MatScale(a2, timestep))
        v3 == inplace_clip_by_abs(v2, cfg.v_max)
        p1 == MatAdd(st.p, MatScale(st.v, timestep))
    IN  [ a |-> a2, v |-> v3, p |-> p1, rand |-> dA.rand, draws |-> <<dA.log>>,
          a_clipped |-> a1, v_unclipped |-> v2 ]

\* the second half of Engine._step_particles, from the total urgency u_tot
\* on: the acceleration, its clip and its epsilon, then velocity and position
apply_urgency(st, cfg, timestep, u_tot, s) ==
    LET a0 == MatScale(MatQuot(u_tot, cfg.u_max), cfg.a_max)
        a1 == inplace_clip_by_abs(a0, cfg.a_max)
        dA == Draw(s, "a", Shape(a1))
        a2 == MatMul(a1, dA.eps)
        v1 == MatScale(st.v, Pow(cfg.v_decay, timestep))
        v2 == MatAdd(v1, MatScale(a2, timestep))
        v3 == inplace_clip_by_abs(v2, cfg.v_max)
        p1 == MatAdd(st.p, MatScale(v3, timestep))
    IN  [ a |-> a2, v |-> v3, p |-> p1, rand |-> dA.rand, draws |-> <<dA.log>>,
          a_clipped |-> a1, v_unclipped |-> v2 ]

\* a particle step that flees from where the predators will be after their
\* own step of this iteration
step_particles_PredatorsAhead(st, cfg, timestep, s) ==
    LET c1 == calculate_urgency1(st, cfg, s)
        c2 == calculate_urgency2(st, cfg, c1.rand)
        c4 == calculate_urgency4(
                  [st EXCEPT !.pred_p = MatAdd(st.pred_p,
                                               MatScale(st.pred_v, timestep))],
                  cfg, c2.rand)
        m  == apply_urgency(st, cfg, timestep, MatAdd(MatAdd(c1.u, c2.u), c4.u),
                            c4.rand)
    IN  [ a |-> m.a, v |-> m.v, p |-> m.p, rand |-> m.rand,
          draws |-> c1.draws \o c2.draws \o c4.draws \o m.draws,
          u1 |-> c1.u, u2 |-> c2.u, u4 |-> c4.u,
          a_clipped |-> m.a_clipped, v_unclipped |-> m.v_unclipped ]

\* Engine._step_particles on the contents st of the state's arrays: the new
\* contents of a, v and p, the generator state and the draws made; u1, u2,
\* u4, a_clipped (a after the clip, before its epsilon) and v_unclipped (v
\* before its clip) are the intermediate values
step_particles(st, cfg, timestep, s) ==
    LET c1 == calculate_urgency1(st, cfg, s)
        c2 == calculate_urgency2(st, cfg, c1.rand)
        c4 == calculate_urgency4(st, cfg, c2.rand)
        m  == apply_urgency(st, cfg, timestep, MatAdd(MatAdd(c1.u, c2.u), c4.u),
                            c4.rand)
    IN  [ a |-> m.a, v |-> m.v, p |-> m.p, rand |-> m.rand,
          draws |-> c1.draws \o c2.draws \o c4.draws \o m.draws,
          u1 |-> c1.u, u2 |-> c2.u, u4 |-> c4.u,
          a_clipped |-> m.a_clipped, v_unclipped |-> m.v_unclipped ]

\* a predator step whose epsilon matrix has the shape of the particles' array
step_predators_ParticleShape(st, timestep, s) ==
    LET dP == Draw(s, "pred_a", Shape(st.a))
        a1 == MatMul(st.pred_a, dP.eps)
        v1 == MatAdd(st.pred_v, MatScale(a1, timestep))
        p1 == MatAdd(st.pred_p, MatScale(v1, timestep))
    IN  [ pred_a |-> a1, pred_v |-> v1, pred_p |-> p1, rand |-> dP.rand,
          draws |-> <<dP.log>> ]

\* Engine._step_predators on the contents st
step_predators(st, timestep, s) ==
    LET dP == Draw(s, "pred_a", Shape(st.pred_a))
        a1 == MatMul(st.pred_a, dP.eps)
        v1 == MatAdd(st.pred_v, MatScale(a1, timestep))
        p1 == MatAdd(st.pred_p, MatScale(v1, timestep))
    IN  [ pred_a |-> a1, pred_v |-> v1, pred_p |-> p1, rand |-> dP.rand,
          draws |-> <<dP.log>> ]

\* copy.copy instead of copy.deepcopy: a fresh State object naming the same arrays
deepcopy_Shallow(o) ==
    [arrays |-> arrays, objs |-> Append(objs, objs[o]), id |-> Len(objs) + 1]

\* copy.deepcopy(State object o): fresh arrays with the same contents and a
\* fresh State object naming them
deepcopy(o) ==
    LET n == Len(arrays)
    IN  [ arrays |-> arrays \o Tab([k \in 1..Len(Fields) |-> arrays[objs[o][Fields[k]]]]),
          objs   |-> Append(objs, [p |-> n + 1, v |-> n + 2, a |-> n + 3,
                                   pred_p |-> n + 4, pred_v |-> n + 5,
                                   pred_a |-> n + 6]),
          id     |-> Len(objs) + 1 ]

\* ------------------------------------------------------------------------
\* engine.py: Engine.run
\* ------------------------------------------------------------------------

\* a run that records the initial state whatever skip_initial_states is
RecordsInitial_Always(skip_initial_states) == TRUE

\* the initial state is recorded: the else branch of `skip_initial_states > 0`
RecordsInitial(skip_initial_states) == ~(skip_initial_states > 0)

\* a run whose comparison lacks the - 1
RecordsIteration_OffByOne(it, skip_initial_states) == it > skip_initial_states

\* the state after this iteration is recorded
RecordsIteration(it, skip_initial_states) == it > (skip_initial_states - 1)

\* the caller passes every engine the same iterations, and after its first
\* run it either repeats a skip_initial_states or skips nothing
SameRunAs(iterations, skip_initial_states) ==
    /\ \A e \in Engines : call[e].made => call[e].args.iterations = iterations
    /\ \/ \A e \in Engines : ~call[e].made
       \/ skip_initial_states = 0
       \/ \E e \in Engines : /\ call[e].made
                              /\ call[e].args.skip_initial_states = skip_initial_states

\* a loop over range(1, iterations)
InLoopRange_Exclusive(it, iterations) == it \in 1..(iterations - 1)

\* `it` is a value of the loop variable: it is in range(1, iterations + 1)
InLoopRange(it, iterations) == it \in 1..iterations

\* a run that returns at once when it is to skip more states than it has
\* iterations
EnterRun_ShortCut(e, a) ==
    /\ pc = "caller"
    /\ eng_state[e] # 0
    /\ args' = a
    /\ call' = [call EXCEPT ![e] = [made |-> TRUE, args |-> a, kwargs |-> {}]]
    /\ cur' = e
    /\ IF RecordsInitial(a.skip_initial_states)
       THEN \E c \in {deepcopy(eng_state[e])} :
                /\ arrays' = c.arrays
                /\ objs' = c.objs
                /\ states' = <<c.id>>
       ELSE /\ states' = <<>>
            /\ UNCHANGED <<arrays, objs>>
    /\ \E enters \in {InLoopRange(1, a.iterations)
                        /\ a.skip_initial_states <= a.iterations} :
           /\ iteration' = IF enters THEN 1 ELSE 0
           /\ pc' = IF enters THEN "step_particles" ELSE "return"
    /\ draws' = <<>>
    /\ UNCHANGED <<bitgen, inp, exc, eng_state, eng_rand, mutated, repacked>>

\* run entry of engine e with the arguments a: `states` starts empty or
\* with a copy of the state, and the loop is entered unless its range is
\* empty
EnterRun(e, a) ==
    /\ pc = "caller"
    /\ eng_state[e] # 0
    /\ args' = a
    /\ call' = [call EXCEPT ![e] = [made |-> TRUE, args |-> a, kwargs |-> {}]]
    /\ cur' = e
    /\ IF RecordsInitial(a.skip_initial_states)
       THEN \E c \in {deepcopy(eng_state[e])} :
                /\ arrays' = c.arrays
                /\ objs' = c.objs
                /\ states' = <<c.id>>
       ELSE /\ states' = <<>>
            /\ UNCHANGED <<arrays, objs>>
    /\ iteration' = IF InLoopRange(1, a.iterations) THEN 1 ELSE 0
    /\ pc' = IF InLoopRange(1, a.iterations) THEN "step_particles" ELSE "return"
    /\ draws' = <<>>
    /\ UNCHANGED <<bitgen, inp, exc, eng_state, eng_rand, mutated, repacked>>

\* the first run of engine e, with the arguments the caller chooses
RunBegin(e, timestep, iterations, skip_initial_states) ==
    /\ ~call[e].made
    /\ timestep = inp[e].timestep
    /\ SameRunAs(iterations, skip_initial_states)
    /\ EnterRun(e, [timestep |-> timestep, iterations |-> iterations,
                    skip_initial_states |-> skip_initial_states])
    /\ UNCHANGED <<result, earlier>>

\* engine.run(timestep=..., iterations=..., return_urgency_vectors=flag), as
\* Grid.run forwards it from scene.py and examples.py: run has no parameter
\* of that name, so the call raises TypeError before the body of run starts
RunUnexpectedKeyword(e, timestep, iterations, return_urgency_vectors) ==
    /\ pc = "caller"
    /\ eng_state[e] # 0
    /\ ~call[e].made
    /\ timestep = inp[e].timestep
    /\ call' = [call EXCEPT ![e] =
                   [made |-> TRUE,
                    args |-> [timestep |-> timestep, iterations |-> iterations,
                              skip_initial_states |-> 0],
                    kwargs |-> {<<"return_urgency_vectors", return_urgency_vectors>>}]]
    /\ pc' = "raised"
    /\ exc' = [type |-> "TypeError", keyword |-> "return_urgency_vectors"]
    /\ UNCHANGED <<bitgen, inp, arrays, objs, eng_state, eng_rand, cur, args,
                   iteration, states, draws, result, mutated, earlier, repacked>>

\* self._step_particles(timestep): a is rebound to a new array, v and p are
\* updated in place
StepParticles ==
    /\ pc = "step_particles"
    /\ \E o \in {eng_state[cur]} :
       \E r \in {step_particles(View(o), inp[cur].cfg, args.timestep, eng_rand[cur])} :
           /\ arrays' = [Append(arrays, r.a) EXCEPT ![objs[o].v] = r.v,
                                                    ![objs[o].p] = r.p]
           /\ objs' = [objs EXCEPT ![o].a = Len(arrays) + 1]
           /\ eng_rand' = [eng_rand EXCEPT ![cur] = r.rand]
           /\ draws' = draws \o r.draws
    /\ pc' = "step_predators"
    /\ UNCHANGED <<bitgen, inp, exc, eng_state, cur, args, iteration, states, call,
                   result, mutated, earlier, repacked>>

\* a predator step that clips the velocity to v_max as the particles' does
StepPredators_Clipped ==
    /\ pc = "step_predators"
    /\ \E o \in {eng_state[cur]} :
       \E r \in {step_predators(View(o), args.timestep, eng_rand[cur])} :
           /\ arrays' = [arrays EXCEPT ![objs[o].pred_a] = r.pred_a,
                                       ![objs[o].pred_v] =
                                           inplace_clip_by_abs(r.pred_v, inp[cur].cfg.v_max),
                                       ![objs[o].pred_p] = r.pred_p]
           /\ eng_rand' = [eng_rand EXCEPT ![cur] = r.rand]
           /\ draws' = draws \o r.draws
    /\ pc' = "record"
    /\ UNCHANGED <<bitgen, inp, exc, objs, eng_state, cur, args, iteration, states,
                   call, result, mutated, earlier, repacked>>

\* self._step_predators(timestep): all three arrays are updated in place
StepPredators ==
    /\ pc = "step_predators"
    /\ \E o \in {eng_state[cur]} :
       \E r \in {step_predators(View(o), args.timestep, eng_rand[cur])} :
           /\ arrays' = [arrays EXCEPT ![objs[o].pred_a] = r.pred_a,
                                       ![objs[o].pred_v] = r.pred_v,
                                       ![objs[o].pred_p] = r.pred_p]
           /\ eng_rand' = [eng_rand EXCEPT ![cur] = r.rand]
           /\ draws' = draws \o r.draws
    /\ pc' = "record"
    /\ UNCHANGED <<bitgen, inp, exc, objs, eng_state, cur, args, iteration, states,
                   call, result, mutated, earlier, repacked>>

\* the end of the loop body: append a copy of the state unless the iteration
\* is skipped, then go on with the next iteration or leave the loop
Record ==
    /\ pc = "record"
    /\ IF RecordsIteration(iteration, args.skip_initial_states)
       THEN \E c \in {deepcopy(eng_state[cur])} :
                /\ arrays' = c.arrays
                /\ objs' = c.objs
                /\ states' = Append(states, c.id)
       ELSE UNCHANGED <<arrays, objs, states>>
    /\ IF InLoopRange(iteration + 1, args.iterations)
       THEN /\ iteration' = iteration + 1
            /\ pc' = "step_particles"
            /\ draws' = <<>>
       ELSE /\ pc' = "return"
            /\ UNCHANGED <<iteration, draws>>
    /\ UNCHANGED <<bitgen, inp, exc, eng_state, eng_rand, cur, args, call, result,
                   mutated, earlier, repacked>>

\* a run that leaves the engine with a newly seeded Randomizer
Return_Reseeds ==
    /\ pc = "return"
    /\ result' = [result EXCEPT ![cur] = [returned |-> TRUE, states |-> states]]
    /\ pc' = "caller"
    /\ cur' = 0
    /\ args' = NoArgs
    /\ iteration' = 0
    /\ states' = <<>>
    /\ draws' = <<>>
    /\ eng_rand' = [eng_rand EXCEPT ![cur] = Randomizer(cur)]
    /\ UNCHANGED <<bitgen, inp, exc, arrays, objs, eng_state, call, mutated,
                   earlier, repacked>>

\* return EngineRunResult(states=states)
Return ==
    /\ pc = "return"
    /\ result' = [result EXCEPT ![cur] = [returned |-> TRUE, states |-> states]]
    /\ pc' = "caller"
    /\ cur' = 0
    /\ args' = NoArgs
    /\ iteration' = 0
    /\ states' = <<>>
    /\ draws' = <<>>
    /\ UNCHANGED <<bitgen, inp, exc, arrays, objs, eng_state, eng_rand, call, mutated,
                   earlier, repacked>>

Next ==
    \/ \E e \in Engines : Construct(e)
    \/ \E e \in Engines, iterations \in -1..MaxIter :
          \E skip_initial_states \in SkipVals(iterations) :
              RunBegin(e, inp[e].timestep, iterations, skip_initial_states)
    \/ \E e \in Engines, return_urgency_vectors \in BOOLEAN :
          RunUnexpectedKeyword(e, inp[e].timestep, MaxIter, return_urgency_vectors)
    \/ StepParticles
    \/ StepPredators
    \/ Record
    \/ Return

Spec == Init /\ [][Next]_vars

\* ------------------------------------------------------------------------
\* A caller that, once its runs have returned, writes into a snapshot
\* ------------------------------------------------------------------------

\* snapshot.<field> += 1.0 on snapshot number h of the result of engine e
Mutate(e, h, field) ==
    /\ pc = "caller"
    /\ \A e2 \in Engines : result[e2].returned
    /\ ~mutated
    /\ h \in 1..Len(result[e].states)
    /\ LET id == objs[result[e].states[h]][field]
       IN  arrays' = [arrays EXCEPT ![id] =
                        Tab([i \in 1..Len(@) |-> Tab([k \in 1..Len(@[i]) |-> @[i][k] + Scale])])]
    /\ mutated' = TRUE
    /\ UNCHANGED <<bitgen, inp, exc, objs, eng_state, eng_rand, pc, cur, args,
                   iteration, states, draws, call, result, earlier, repacked>>

NextMutate ==
    \/ Next
    \/ \E e \in Engines, h \in 1..(MaxIter + 1), k \in 1..Len(Fields) :
          Mutate(e, h, Fields[k])

\* the caller of SpecMutate uses the second configuration and starts the
\* particles at rest
InitMutate ==
    /\ Init
    /\ \A e \in Engines : inp[e].cfg = SlowConfig(Len(inp[e].p))
    /\ \A e \in Engines : inp[e].v = Zeros(Len(inp[e].p))

SpecMutate == InitMutate /\ [][NextMutate]_vars

\* ------------------------------------------------------------------------
\* A caller that repacks the returned history for manim (scene.py, util.py)
\* ------------------------------------------------------------------------

\* np.array([s.<field>[idx] for s in state_history]) for every idx below
\* `number`: one array per particle or predator, one row per snapshot
PerIndex(state_history, field, number) ==
    Tab([idx \in 1..number |->
        Tab([h \in 1..Len(state_history) |-> state_history[h][field][idx]])])

\* a repack that walks the history from its end
repack_particle_histories_for_manim_Reversed(state_history) ==
    LET number_of_particles == Len(state_history[1].p)
        H == Len(state_history)
        backwards == Tab([h \in 1..H |-> state_history[H + 1 - h]])
    IN  [ p_histories |-> PerIndex(backwards, "p", number_of_particles),
          v_histories |-> PerIndex(backwards, "v", number_of_particles),
          a_histories |-> PerIndex(backwards, "a", number_of_particles) ]

\* Utils.repack_particle_histories_for_manim of util.py on the contents of
\* a non-empty history: the position, velocity and acceleration lists
repack_particle_histories_for_manim(state_history) ==
    LET number_of_particles == Len(state_history[1].p)
    IN  [ p_histories |-> PerIndex(state_history, "p", number_of_particles),
          v_histories |-> PerIndex(state_history, "v", number_of_particles),
          a_histories |-> PerIndex(state_history, "a", number_of_particles) ]

\* Utils.repack_predator_histories_for_manim
repack_predator_histories_for_manim(state_history) ==
    LET number_of_predators == Len(state_history[1].pred_p)
    IN  PerIndex(state_history, "pred_p", number_of_predators)

\* the ids of `count` arrays allocated after `before` arrays
NewIds(before, count) == Tab([k \in 1..count |-> before + k])

\* the caller repacks the particles of the history returned for engine e:
\* the lists hold new arrays; an empty history has no state_history[0]
RepackParticles(e) ==
    /\ pc = "caller"
    /\ result[e].returned
    /\ \A e2 \in Engines : e2 < e => repacked[e2].predators
    /\ ~repacked[e].particles
    /\ IF result[e].states = <<>>
       THEN /\ pc' = "raised"
            /\ exc' = [type |-> "IndexError"]
            /\ UNCHANGED <<arrays, repacked>>
       ELSE \E r \in {repack_particle_histories_for_manim(
                          Tab([h \in 1..Len(result[e].states) |->
                                  View(result[e].states[h])]))} :
            \E n \in {Len(r.p_histories)} :
                /\ arrays' = arrays \o r.p_histories \o r.v_histories \o r.a_histories
                /\ repacked' = [repacked EXCEPT ![e] =
                      [@ EXCEPT !.particles = TRUE,
                                !.p_histories = NewIds(Len(arrays), n),
                                !.v_histories = NewIds(Len(arrays) + n, n),
                                !.a_histories = NewIds(Len(arrays) + 2 * n, n)]]
                /\ UNCHANGED <<pc, exc>>
    /\ UNCHANGED <<bitgen, inp, objs, eng_state, eng_rand, cur, args, iteration,
                   states, draws, call, result, mutated, earlier>>

\* then it repacks the predators of the same history
RepackPredators(e) ==
    /\ pc = "caller"
    /\ repacked[e].particles
    /\ ~repacked[e].predators
    /\ \E r \in {repack_predator_histories_for_manim(
                      Tab([h \in 1..Len(result[e].states) |->
                              View(result[e].states[h])]))} :
           /\ arrays' = arrays \o r
           /\ repacked' = [repacked EXCEPT ![e] =
                 [@ EXCEPT !.predators = TRUE,
                           !.predator_histories = NewIds(Len(arrays), Len(r))]]
    /\ UNCHANGED <<bitgen, inp, exc, objs, eng_state, eng_rand, pc, cur, args,
                   iteration, states, draws, call, result, mutated, earlier>>

NextRepack ==
    \/ Next
    \/ \E e \in Engines : RepackParticles(e)
    \/ \E e \in Engines : RepackPredators(e)

\* the caller of SpecRepack uses the configuration of examples.py on a
\* lattice of spacing 0.5, with the particles at rest
InitRepack ==
    /\ Init
    /\ \A e \in Engines :
          /\ inp[e].cfg = ExampleConfig(bitgen, Len(inp[e].p))
          /\ inp[e].v = Zeros(Len(inp[e].p))
          /\ inp[e].a = Zeros(Len(inp[e].p))
          /\ \E origin \in {c.origin : c \in Callers} :
                 inp[e].p = InitialP(Len(inp[e].p), origin, Scale \div 2)

SpecRepack == InitRepack /\ [][NextRepack]_vars

\* ------------------------------------------------------------------------
\* A caller that runs an engine a second time
\* ------------------------------------------------------------------------

\* engine.run(timestep=..., iterations=...) on an engine that has not run
RunOnce(e, iterations) ==
    /\ ~call[e].made
    /\ EnterRun(e, [timestep |-> inp[e].timestep, iterations |-> iterations,
                    skip_initial_states |-> 0])
    /\ UNCHANGED <<result, earlier>>

\* the same call on an engine whose first run has returned: the caller
\* keeps the first result and runs the engine as it is
RunAgain(e, iterations) ==
    /\ result[e].returned
    /\ earlier[e] = <<>>
    /\ earlier' = [earlier EXCEPT ![e] = <<result[e].states>>]
    /\ result' = [result EXCEPT ![e] = [returned |-> FALSE, states |-> <<>>]]
    /\ EnterRun(e, [timestep |-> inp[e].timestep, iterations |-> iterations,
                    skip_initial_states |-> 0])

\* this caller runs its first engine twice, and its second engine once
\* for up to as many iterations as the two runs of the first together
NextCompose ==
    \/ \E e \in Engines : Construct(e)
    \/ \E iterations \in 0..MaxIter : RunOnce(1, iterations)
    \/ \E iterations \in 0..MaxIter : RunAgain(1, iterations)
    \/ \E iterations \in 0..(2 * MaxIter) : RunOnce(2, iterations)
    \/ StepParticles
    \/ StepPredators
    \/ Record
    \/ Return

SpecCompose == InitRepack /\ [][NextCompose]_vars

\* ------------------------------------------------------------------------
\* A caller that runs the same predators among different particles
\* ------------------------------------------------------------------------

\* input i with other particles or another Config: a wider lattice, moving
\* particles, particles that start accelerated, the second configuration
OtherParticles(i) ==
    LET n == Len(i.p)
    IN  { [i EXCEPT !.p = InitialP(n, <<Scale, -Scale>>, 3 * (Scale \div 2))],
          [i EXCEPT !.v = Tab([k \in 1..n |-> <<6 * Scale, -5 * (Scale \div 2)>>])],
          [i EXCEPT !.a = Ones(n, Dim)],
          [i EXCEPT !.cfg = SlowConfig(n)] }

\* the first engine gets an input of InitRepack, the second one the same
\* predators, timestep and number of particles with other particles
InitPair ==
    /\ \E c \in Callers :
          /\ bitgen = c.bitgen
          /\ \E i \in Inputs(c) :
                /\ i.cfg = ExampleConfig(bitgen, Len(i.p))
                /\ i.v = Zeros(Len(i.p))
                /\ i.a = Zeros(Len(i.p))
                /\ i.p = InitialP(Len(i.p), c.origin, Scale \div 2)
                /\ \E j \in OtherParticles(i) :
                       inp = [e \in Engines |-> IF e = 1 THEN i ELSE j]
    /\ arrays = <<>>
    /\ objs = <<>>
    /\ eng_state = [e \in Engines |-> 0]
    /\ eng_rand = [e \in Engines |-> 0]
    /\ pc = "caller"
    /\ cur = 0
    /\ args = NoArgs
    /\ iteration = 0
    /\ states = <<>>
    /\ draws = <<>>
    /\ call = [e \in Engines |-> [made |-> FALSE, args |-> NoArgs, kwargs |-> {}]]
    /\ result = [e \in Engines |-> [returned |-> FALSE, states |-> <<>>]]
    /\ mutated = FALSE
    /\ exc = NoException
    /\ earlier = [e \in Engines |-> <<>>]
    /\ repacked = [e \in Engines |-> NotRepacked]

\* both engines are run with the same arguments, without skipped states
NextPair ==
    \/ \E e \in Engines : Construct(e)
    \/ \E e \in Engines, iterations \in 0..MaxIter :
          RunBegin(e, inp[e].timestep, iterations, 0)
    \/ StepParticles
    \/ StepPredators
    \/ Record
    \/ Return

SpecPair == InitPair /\ [][NextPair]_vars

\* run is synchronous: once entered, its statements execute one after the
\* other without waiting for anything.  The record and the return are
\* weakly fair; the two sub-steps are straight-line code that is always
\* enabled where control reaches it, so their fairness is that control
\* never stays there
SpecSync ==
    /\ InitRepack /\ [][Next]_vars
    /\ WF_vars(Record \/ Return)
    /\ []<>(pc \notin {"step_particles", "step_predators"})

\* ------------------------------------------------------------------------
\* A caller that places particles and predators at chosen distances
\* ------------------------------------------------------------------------

\* a Config with unit parameters: d_max = 2, u2_dopt = 1, u4_dmax = 5; the
\* weights of the first particle are 1, 0.5, 2, 1, and from particle to
\* particle the first grows by 0.5 and the last by 0.25
UnitConfig(n) ==
    [ v_max |-> 10 * Scale, v_decay |-> Scale, a_max |-> 10 * Scale,
      d_max |-> 2 * Scale, u_max |-> 10 * Scale, u1_p |-> Scale,
      u2_p |-> Scale, u2_dopt |-> Scale, u4_p |-> Scale,
      u4_dmax |-> 5 * Scale,
      uw |-> Tab([i \in 1..n |-> <<Scale + (i - 1) * (Scale \div 2), Scale \div 2,
                                   2 * Scale, Scale + (i - 1) * (Scale \div 4)>>]) ]

\* where the second particle is, seen from the first: at distance 0.5, 1
\* (= u2_dopt), 0.25, 1, 2 (= d_max), 3, 0 and 0.5
NeighbourOffsets ==
    { <<Scale \div 2, 0>>, <<Scale, 0>>, <<0, -(Scale \div 4)>>,
      <<3 * (Scale \div 5), 4 * (Scale \div 5)>>,
      <<6 * (Scale \div 5), 8 * (Scale \div 5)>>, <<3 * Scale, 0>>, <<0, 0>>,
      <<-3 * (Scale \div 10), -2 * (Scale \div 5)>> }

\* where the first predator is, seen from the first particle: at distance
\* 2, 2, 5 (= u4_dmax), 5, 6 and 0
PredatorOffsets ==
    { <<2 * Scale, 0>>, <<6 * (Scale \div 5), 8 * (Scale \div 5)>>,
      <<0, -5 * Scale>>, <<3 * Scale, 4 * Scale>>, <<6 * Scale, 0>>, <<0, 0>> }

\* particle i: the first at base, the second at the offset, the others up
\* the second axis at steps of 1.5
PlacedP(n, base, offset) ==
    Tab([i \in 1..n |-> Tab([k \in 1..Dim |->
        IF i = 1 THEN base[k]
        ELSE IF i = 2 THEN base[k] + offset[k]
        ELSE IF k = 2 THEN base[k] + (i - 2) * 3 * (Scale \div 2) ELSE base[k]])])

\* predator j, at rest: the first at the offset, the others further along
\* the first axis at steps of 8
PlacedPred(m, base, offset) ==
    Tab([j \in 1..m |-> Tab([k \in 1..Dim |->
        IF k = 1 THEN base[k] + offset[k] + (j - 1) * 8 * Scale
        ELSE base[k] + offset[k]])])

\* the State and Config values of this caller
PlacedInputs ==
    { [ p |-> PlacedP(n, base, offset),
        v |-> Zeros(n),
        a |-> Zeros(n),
        pred_p |-> PlacedPred(m, base, pred),
        pred_v |-> Zeros(m),
        pred_a |-> Zeros(m),
        cfg |-> UnitConfig(n),
        timestep |-> Scale \div 2 ] :
      n \in 1..(MaxN + 1), base \in {<<0, 0>>, <<-3 * (Scale \div 4), 2 * (Scale \div 5)>>},
      offset \in NeighbourOffsets, m \in 0..MaxM, pred \in PredatorOffsets }

InitPlaced ==
    /\ bitgen = <<5, 3>>
    /\ \E i \in PlacedInputs : inp = [e \in Engines |-> i]
    /\ arrays = <<>>
    /\ objs = <<>>
    /\ eng_state = [e \in Engines |-> 0]
    /\ eng_rand = [e \in Engines |-> 0]
    /\ pc = "caller"
    /\ cur = 0
    /\ args = NoArgs
    /\ iteration = 0
    /\ states = <<>>
    /\ draws = <<>>
    /\ call = [e \in Engines |-> [made |-> FALSE, args |-> NoArgs, kwargs |-> {}]]
    /\ result = [e \in Engines |-> [returned |-> FALSE, states |-> <<>>]]
    /\ mutated = FALSE
    /\ exc = NoException
    /\ earlier = [e \in Engines |-> <<>>]
    /\ repacked = [e \in Engines |-> NotRepacked]

\* this caller runs its engines without skip_initial_states
NextPlaced ==
    \/ \E e \in Engines : Construct(e)
    \/ \E e \in Engines, iterations \in 0..MaxIter :
          RunBegin(e, inp[e].timestep, iterations, 0)
    \/ StepParticles
    \/ StepPredators
    \/ Record
    \/ Return

SpecPlaced == InitPlaced /\ [][NextPlaced]_vars

\* ------------------------------------------------------------------------
\* Properties
\* ------------------------------------------------------------------------

\* the names of the fields of State
FieldNames == {Fields[k] : k \in 1..Len(Fields)}

\* the contents of the snapshots returned for engine e, oldest first
HistoryValues(e) ==
    Tab([h \in 1..Len(result[e].states) |-> View(result[e].states[h])])

\* the State objects recorded so far, by the executing run or a returned one
SnapshotObjs ==
    {states[h] : h \in 1..Len(states)} \cup
    UNION {{result[e].states[h] : h \in 1..Len(result[e].states)} : e \in Engines}

\* the State objects the engines hold
LiveObjs == {eng_state[e] : e \in Engines} \ {0}

\* C1: a run with 0 <= skip_initial_states <= iterations returns exactly
\* iterations + 1 - skip_initial_states snapshots
C1_HistoryLength ==
    \A e \in Engines :
        LET a == call[e].args
        IN  (/\ result[e].returned
             /\ 0 <= a.skip_initial_states
             /\ a.skip_initial_states <= a.iterations)
            => Len(result[e].states) = a.iterations + 1 - a.skip_initial_states

\* a run of two iterations that skipped one state has returned two snapshots
C1_Witness ==
    \E e \in Engines :
        /\ result[e].returned
        /\ call[e].args.iterations = 2
        /\ call[e].args.skip_initial_states = 1
        /\ Len(result[e].states) = 2

\* C2: for equal inputs and 1 <= s <= iterations the history of a run that
\* skips s states is the history of the run that skips none, without its
\* first s entries
C2_SkipDropsPrefix ==
    \A e1, e2 \in Engines :
        LET a1 == call[e1].args
            a2 == call[e2].args
            s  == a1.skip_initial_states
        IN  (/\ result[e1].returned /\ result[e2].returned
             /\ inp[e1] = inp[e2]
             /\ a1.timestep = a2.timestep /\ a1.iterations = a2.iterations
             /\ 1 <= s /\ s <= a1.iterations
             /\ a2.skip_initial_states = 0)
            => HistoryValues(e1) =
                   SubSeq(HistoryValues(e2), s + 1, Len(HistoryValues(e2)))

\* a run that skipped one state and a run that skipped none have both
\* returned, and the state kept changing during the run
C2_Witness ==
    \E e1, e2 \in Engines :
        /\ result[e1].returned /\ result[e2].returned
        /\ call[e1].args.skip_initial_states = 1
        /\ call[e2].args.skip_initial_states = 0
        /\ call[e1].args.iterations = 2
        /\ HistoryValues(e2)[1] # HistoryValues(e2)[2]
        /\ HistoryValues(e2)[2] # HistoryValues(e2)[3]
        /\ HistoryValues(e1)[1] = HistoryValues(e2)[2]

\* no array is shared: two different (State object, field) pairs among the
\* engines' states and the snapshots never name the same array, no snapshot
\* is recorded twice and no snapshot is a state an engine holds
NoSharedArrays ==
    /\ \A o1, o2 \in LiveObjs \cup SnapshotObjs : \A f1, f2 \in FieldNames :
           (o1 # o2 \/ f1 # f2) => objs[o1][f1] # objs[o2][f2]
    /\ SnapshotObjs \cap LiveObjs = {}
    /\ \A h1, h2 \in 1..Len(states) : h1 # h2 => states[h1] # states[h2]
    /\ \A e \in Engines : \A h1, h2 \in 1..Len(result[e].states) :
           h1 # h2 => result[e].states[h1] # result[e].states[h2]

\* the content of State object o after the step
ViewNext(o) == [f \in FieldNames |-> arrays'[objs'[o][f]]]

\* a step of an engine changes no recorded snapshot; a write of the caller
\* into a snapshot changes that snapshot only, and no engine's state
StepKeepsSnapshots ==
    LET changed == {o \in SnapshotObjs : ViewNext(o) # View(o)}
    IN  /\ mutated' = mutated => changed = {}
        /\ mutated' # mutated =>
              /\ Cardinality(changed) <= 1
              /\ \A o \in LiveObjs : ViewNext(o) = View(o)

\* C3: every snapshot is an independent deep copy: it shares no array with
\* the engine's state or another snapshot, keeps its value through all later
\* steps, and a write into it changes no other snapshot and no engine state
C3_SnapshotIsolation == []NoSharedArrays /\ [][StepKeepsSnapshots]_vars

\* the caller has written into a snapshot of a history of three snapshots
\* whose states differ
C3_Witness ==
    /\ mutated
    /\ \E e \in Engines :
          /\ Len(result[e].states) = 3
          /\ View(result[e].states[2]).p # View(result[e].states[3]).p

\* C4: two engines built from equal State and Config values and run with
\* equal arguments return equal histories
C4_Determinism ==
    \A e1, e2 \in Engines :
        (/\ result[e1].returned /\ result[e2].returned
         /\ inp[e1] = inp[e2]
         /\ call[e1].args = call[e2].args)
        => HistoryValues(e1) = HistoryValues(e2)

\* two engines have returned from equal runs of two iterations in which
\* the state kept changing
C4_Witness ==
    /\ result[1].returned /\ result[2].returned
    /\ call[1].args = call[2].args
    /\ call[1].args.iterations = 2
    /\ call[1].args.skip_initial_states = 0
    /\ HistoryValues(1)[1] # HistoryValues(1)[2]
    /\ HistoryValues(1)[2].a # HistoryValues(1)[3].a

\* the snapshots recorded so far for engine e, oldest first
Recorded(e) ==
    IF result[e].returned THEN result[e].states
    ELSE IF cur = e THEN states ELSE <<>>

\* the snapshots recorded after at least one step, as <<engine, State object>>
PostStepSnapshots ==
    UNION {{<<e, Recorded(e)[h]>> :
               h \in {g \in 1..Len(Recorded(e)) :
                        ~(RecordsInitial(call[e].args.skip_initial_states) /\ g = 1)}} :
           e \in Engines}

\* every row of matrix m has a Euclidean norm of at most bound
RowsWithin(m, bound) == \A i \in 1..Len(m) : SumSq(m[i]) <= bound * bound

\* C5 as stated: in every state recorded after a step, every particle's
\* acceleration satisfies ||A_i|| <= a_max
C5_AccelerationWithinAMax ==
    \A s \in PostStepSnapshots :
        RowsWithin(View(s[2]).a, inp[s[1]].cfg.a_max)

\* C5 as amended: in every state recorded after a step, every particle's
\* acceleration satisfies ||A_i|| <= a_max * (1 + EPSILON)
C5_AccelerationWithinNoise ==
    \A s \in PostStepSnapshots :
        RowsWithin(View(s[2]).a, Mul(inp[s[1]].cfg.a_max, Scale + EPSILON))

\* a recorded acceleration that the clip cut down to a_max and the noise
\* then raised above a_max
C5_Witness ==
    \E s \in PostStepSnapshots :
        LET a == View(s[2]).a
            a_max == inp[s[1]].cfg.a_max
        IN  \E i \in 1..Len(a) :
                /\ SumSq(a[i]) > a_max * a_max
                /\ SumSq(a[i]) <= Mul(a_max, Scale + EPSILON) * Mul(a_max, Scale + EPSILON)

\* row `new` is row `old` scaled down to norm r, up to the rounding of the
\* division: same direction, norm at most r and within three units of it
ScaledTo(old, new, r) ==
    /\ SumSq(new) <= r * r
    /\ SumSq(new) >= (r - 3) * (r - 3)
    /\ \A k \in 1..Len(old) : old[k] * new[k] >= 0
    /\ \A k1, k2 \in 1..Len(old) :
           Abs(old[k1] * new[k2] - old[k2] * new[k1]) <= Abs(old[k1]) + Abs(old[k2])

\* every recorded velocity is within v_max
C6_Recorded ==
    \A s \in PostStepSnapshots :
        RowsWithin(View(s[2]).v, inp[s[1]].cfg.v_max)

\* the particle step leaves in V the clip of the decayed velocity plus the
\* new acceleration times the timestep: rows above v_max scaled to v_max,
\* the others as they are; no other step of the engine writes V
C6_ClipIsLast ==
    IF pc = "step_particles"
    THEN LET o == eng_state[cur]
             cfg == inp[cur].cfg
         IN  \A before \in {MatAdd(MatScale(View(o).v, Pow(cfg.v_decay, args.timestep)),
                                   MatScale(ViewNext(o).a, args.timestep))} :
             \A after \in {ViewNext(o).v} :
             \A i \in 1..Len(before) :
                 IF SumSq(before[i]) > cfg.v_max * cfg.v_max
                 THEN ScaledTo(before[i], after[i], cfg.v_max)
                 ELSE after[i] = before[i]
    ELSE \A o \in LiveObjs : ViewNext(o).v = View(o).v

\* C6: after each step every particle's velocity satisfies ||V_i|| <= v_max
\* in the recorded state, whatever the initial velocity was; the clip is the
\* last operation on V in a step, rows above v_max are scaled to norm v_max
\* and rows within the bound are left untouched
C6_VelocityClip == []C6_Recorded /\ [][C6_ClipIsLast]_vars

\* a particle that started faster than v_max is recorded at norm v_max
C6_Witness ==
    \E s \in PostStepSnapshots :
        LET v == View(s[2]).v
            v_max == inp[s[1]].cfg.v_max
        IN  \E i \in 1..Len(v) :
                /\ SumSq(inp[s[1]].v[i]) > v_max * v_max
                /\ ScaledTo(inp[s[1]].v[i], v[i], v_max)

\* C7: in every snapshot recorded after at least one step, every
\* ||A_i|| <= a_max * (1 + EPSILON) and every ||V_i|| <= v_max * (1 + EPSILON)
C7_NoiseBounds ==
    \A s \in PostStepSnapshots :
        /\ RowsWithin(View(s[2]).a, Mul(inp[s[1]].cfg.a_max, Scale + EPSILON))
        /\ RowsWithin(View(s[2]).v, Mul(inp[s[1]].cfg.v_max, Scale + EPSILON))

\* a snapshot of the second iteration in which an acceleration is above
\* a_max, by the noise, and a velocity is at most three units below v_max
C7_Witness ==
    \E e \in Engines :
        /\ Len(Recorded(e)) = 3
        /\ LET st == View(Recorded(e)[3])
               cfg == inp[e].cfg
           IN  /\ ~RowsWithin(st.a, cfg.a_max)
               /\ \E i \in 1..Len(st.v) :
                      SumSq(st.v[i]) >= (cfg.v_max - 3) * (cfg.v_max - 3)

\* the draws one iteration of engine e makes, in order: four of the shape
\* of p, then one of the shape of pred_a
IterationDraws(e) ==
    LET n == <<Len(inp[e].p), Dim>>
        m == <<Len(inp[e].pred_p), Dim>>
    IN  << [who |-> "u1", shape |-> n], [who |-> "u2", shape |-> n],
           [who |-> "u4", shape |-> n], [who |-> "a", shape |-> n],
           [who |-> "pred_a", shape |-> m] >>

\* C8: every iteration consumes the random source by exactly five draws, in
\* the order u1 (N,d), u2 (N,d), predator escape (N,d), final acceleration
\* (N,d), predator acceleration (M,d), whatever the positions and M are:
\* at the end of iteration k the draws of the iteration are these five and
\* the generator has produced k * (4 * N * d + M * d) numbers
C8_FiveDraws ==
    pc = "record" =>
        /\ draws = IterationDraws(cur)
        /\ eng_rand[cur] =
               RngAfter(bitgen, Randomizer(cur),
                        iteration * (4 * Len(inp[cur].p) * Dim
                                     + Len(inp[cur].pred_p) * Dim))

\* the second iteration of an engine without predators has made its five
\* draws, the last one empty
C8_Witness ==
    /\ pc = "record"
    /\ iteration = 2
    /\ Len(inp[cur].pred_p) = 0
    /\ Len(draws) = 5
    /\ draws[5].shape[1] = 0
    /\ draws[3].shape[1] = Len(inp[cur].p)

\* the predator arrays of State object o are empty
NoPredatorsIn(o) ==
    /\ View(o).pred_p = <<>>
    /\ View(o).pred_v = <<>>
    /\ View(o).pred_a = <<>>

\* with M = 0, the urgency 4 of the step about to be taken is the zero
\* field and the predator arrays of the engine and of every snapshot are empty
C9_ZeroField ==
    \A e \in Engines :
        (Len(inp[e].pred_p) = 0 /\ eng_state[e] # 0) =>
            /\ NoPredatorsIn(eng_state[e])
            /\ \A h \in 1..Len(Recorded(e)) : NoPredatorsIn(Recorded(e)[h])
            /\ (pc = "step_particles" /\ cur = e) =>
                   step_particles(View(eng_state[e]), inp[e].cfg, args.timestep,
                                  eng_rand[e]).u4 = Zeros(Len(inp[e].p))

\* with M = 0, the predator sub-step changes no array and draws no number
C9_NoOp ==
    (pc = "step_predators" /\ Len(inp[cur].pred_p) = 0) =>
        /\ arrays' = arrays
        /\ objs' = objs
        /\ eng_rand' = eng_rand

\* C9: with M = 0 the predator-escape urgency is exactly the zero (N,d)
\* field in every step, and the predator sub-step leaves pred_p, pred_v and
\* pred_a unchanged, and empty in every snapshot
C9_NoPredators == []C9_ZeroField /\ [][C9_NoOp]_vars

\* an engine of two particles and no predator has finished its second
\* iteration with accelerations that are not zero
C9_Witness ==
    /\ pc = "record"
    /\ iteration = 2
    /\ Len(inp[cur].pred_p) = 0
    /\ Len(inp[cur].p) = 2
    /\ Len(states) >= 2
    /\ View(eng_state[cur]).a # Zeros(2)

\* one step of an engine without predator handling, on particle state st
\* (p, v, a and the generator state rand): urgencies 1 and 2 only and no
\* predator sub-step; `noise` tells whether it still draws the (N,d)
\* epsilon matrix of the urgency it omits
NoPredatorStep(st, cfg, timestep, noise) ==
    LET c1 == calculate_urgency1(st, cfg, st.rand)
        c2 == calculate_urgency2(st, cfg, c1.rand)
        s3 == IF noise THEN RngAfter(bitgen, c2.rand, Size(Shape(st.p)))
              ELSE c2.rand
        m  == apply_urgency(st, cfg, timestep, MatAdd(c1.u, c2.u), s3)
    IN  [p |-> m.p, v |-> m.v, a |-> m.a, rand |-> m.rand]

\* the particle state after k steps of that engine
RECURSIVE NoPredatorRun(_, _, _, _, _)
NoPredatorRun(st, cfg, timestep, noise, k) ==
    IF k = 0 THEN st
    ELSE NoPredatorRun(NoPredatorStep(st, cfg, timestep, noise), cfg, timestep,
                       noise, k - 1)

\* the iteration after which snapshot number h of a run was recorded
IterationOf(h, skip_initial_states) ==
    IF skip_initial_states > 0 THEN h - 1 + skip_initial_states ELSE h - 1

\* a run without predators that is about to return has recorded the
\* particle states of the engine without predator handling
EqualsNoPredatorRun(noise) ==
    (pc = "return" /\ Len(inp[cur].pred_p) = 0) =>
        \A h \in 1..Len(states) :
            LET i == inp[cur]
                r == NoPredatorRun([p |-> i.p, v |-> i.v, a |-> i.a,
                                    rand |-> Randomizer(cur)],
                                   i.cfg, args.timestep, noise,
                                   IterationOf(h, args.skip_initial_states))
                s == View(states[h])
            IN  s.p = r.p /\ s.v = r.v /\ s.a = r.a

\* C10 as stated: with M = 0, P, V and A of every snapshot equal those of
\* an engine that performs neither the predator-escape urgency computation,
\* with its noise draw, nor the predator sub-step
C10_EqualsVariantWithoutDraw == EqualsNoPredatorRun(FALSE)

\* C10 as amended: with M = 0, P, V and A of every snapshot equal those of
\* an engine that omits the predator-escape computation and the predator
\* sub-step but still draws the (N,d) noise matrix of that urgency
C10_EqualsVariantWithDraw == EqualsNoPredatorRun(TRUE)

\* a run of two iterations without predators is about to return three
\* snapshots whose accelerations differ
C10_Witness ==
    /\ pc = "return"
    /\ Len(inp[cur].pred_p) = 0
    /\ Len(states) = 3
    /\ View(states[2]).a # View(states[3]).a
    /\ View(states[1]).p # View(states[2]).p

\* particle i of positions p has no other particle at a distance in (0, d_max]
Isolated(p, cfg, i) ==
    \A j \in 1..Len(p) : ~InRange(Cdist(p, p), cfg.d_max)[i][j]

\* C11: a particle with no other particle at a distance in (0, d_max] gets a
\* cohesion urgency of exactly zero, whatever its position; for N = 1 (and
\* no predator) all urgencies of a step are zero, A = 0 in every snapshot
\* after a step, and P stays at its initial value when V = 0 initially
C11_IsolatedZeroCohesion ==
    /\ pc = "step_particles" =>
           LET st == View(eng_state[cur])
               cfg == inp[cur].cfg
               r == step_particles(st, cfg, args.timestep, eng_rand[cur])
           IN  /\ \A i \in 1..Len(st.p) :
                      Isolated(st.p, cfg, i) => r.u1[i] = ZeroRow
               /\ (Len(st.p) = 1 /\ Len(st.pred_p) = 0) =>
                      r.u1 = Zeros(1) /\ r.u2 = Zeros(1) /\ r.u4 = Zeros(1)
    /\ \A s \in PostStepSnapshots :
           (Len(inp[s[1]].p) = 1 /\ Len(inp[s[1]].pred_p) = 0) =>
               /\ View(s[2]).a = Zeros(1)
               /\ inp[s[1]].v = Zeros(1) => View(s[2]).p = inp[s[1]].p

\* the particles other than i at a distance in (0, d_max] of particle i
Neighbours(p, cfg, i) ==
    {j \in 1..Len(p) \ {i} : Cdist(p, p)[i][j] > 0 /\ Cdist(p, p)[i][j] <= cfg.d_max}

\* the sum of coordinate k of the particles in set R
SumOver(p, R, k) == SumTo([j \in 1..Len(p) |-> IF j \in R THEN p[j][k] ELSE 0], Len(p))

\* C12: for a particle i with at least one neighbour in range, the cohesion
\* urgency before noise is (C_i - P_i) * u1_p * W[i,0], C_i the arithmetic
\* mean of the positions of the other particles at a distance in
\* (0, d_max], up to the rounding of the mean; of two particles within
\* d_max of each other, each is pulled exactly toward the other's position
C12_CohesionTowardMean ==
    pc = "step_particles" =>
        LET p == View(eng_state[cur]).p
            cfg == inp[cur].cfg
            u == Urgency1(p, cfg, Ones(Len(p), Dim))
        IN  \A i \in 1..Len(p) :
              LET R == Neighbours(p, cfg, i)
                  count == Cardinality(R)
              IN  R # {} =>
                    \A k \in 1..Dim :
                      LET mean == Div(SumOver(p, R, k), count)
                          pull == Mul(Mul(mean - p[i][k], cfg.u1_p), cfg.uw[i][1])
                          far == SumOver([j \in 1..Len(p) |->
                                            [c \in 1..Dim |-> Abs(p[j][c])]], R, k)
                          slack == IF count = 1 THEN 0
                                   ELSE 2 + Mul(1 + Mul(2 * count + 1 + far \div Scale,
                                                        cfg.u1_p),
                                                cfg.uw[i][1])
                      IN  Abs(u[i][k] - pull) <= slack

\* three particles are about to step: the second has two neighbours in
\* range, which are at different places, and a weight other than 1
C12_Witness ==
    /\ pc = "step_particles"
    /\ LET p == View(eng_state[cur]).p
           cfg == inp[cur].cfg
       IN  /\ Len(p) = 3
           /\ Neighbours(p, cfg, 2) = {1, 3}
           /\ p[1] # p[3]
           /\ cfg.uw[2][1] # Scale
           /\ Urgency1(p, cfg, Ones(3, Dim))[2] # ZeroRow

\* row u has no component against the direction from `from` to `to`
PointsAlong(u, from, to) == \A k \in 1..Len(u) : u[k] * (to[k] - from[k]) >= 0

\* C13: for two particles at a distance 0 < D < u2_dopt with equal weights
\* W[.,1], the personal-space urgencies before noise are opposite vectors
\* of equal magnitude, each pointing away from the other particle
C13_RepulsionAntisymmetry ==
    pc = "step_particles" =>
        LET p == View(eng_state[cur]).p
            cfg == inp[cur].cfg
            u == Urgency2(p, cfg, Ones(Len(p), Dim))
        IN  (/\ Len(p) = 2
             /\ Cdist(p, p)[1][2] > 0
             /\ Cdist(p, p)[1][2] < cfg.u2_dopt
             /\ cfg.uw[1][2] = cfg.uw[2][2]) =>
                /\ \A k \in 1..Dim : u[1][k] = -u[2][k]
                /\ SumSq(u[1]) = SumSq(u[2])
                /\ PointsAlong(u[1], p[2], p[1])
                /\ PointsAlong(u[2], p[1], p[2])

\* two particles half of u2_dopt apart, along neither axis, are about to
\* step, and their urgencies are not zero
C13_Witness ==
    /\ pc = "step_particles"
    /\ LET p == View(eng_state[cur]).p
           cfg == inp[cur].cfg
       IN  /\ Len(p) = 2
           /\ Cdist(p, p)[1][2] * 2 = cfg.u2_dopt
           /\ \A k \in 1..Dim : p[1][k] # p[2][k]
           /\ Urgency2(p, cfg, Ones(2, Dim))[1] # ZeroRow

\* the distance between rows x and y is a whole number of units
ExactDistance(x, y) ==
    LET ss == SumSq([k \in 1..Len(x) |-> x[k] - y[k]])
    IN  ISqrt(ss) * ISqrt(ss) = ss

\* the norm of row u, rounded down
Norm(u) == ISqrt(SumSq(u))

\* C14: the personal-space urgency before noise that a single neighbour at
\* distance D exerts has magnitude u2_p * W[i,1] * (u2_dopt - D) / u2_dopt
\* when 0 < D <= u2_dopt (up to 4 units of rounding), is exactly zero at
\* D = u2_dopt and is zero for every D > u2_dopt
C14_RepulsionMagnitude ==
    pc = "step_particles" =>
        LET p == View(eng_state[cur]).p
            cfg == inp[cur].cfg
            u == Urgency2(p, cfg, Ones(Len(p), Dim))
            D == Cdist(p, p)[1][2]
        IN  (Len(p) = 2 /\ ExactDistance(p[1], p[2]) /\ D > 0) =>
                \A i \in 1..2 :
                    /\ D < cfg.u2_dopt =>
                           Abs(Norm(u[i])
                               - Mul(Mul(Quot(cfg.u2_dopt - D, cfg.u2_dopt), cfg.u2_p),
                                     cfg.uw[i][2])) <= 4
                    /\ D >= cfg.u2_dopt => u[i] = ZeroRow

\* two particles a quarter of u2_dopt apart are about to step, and the
\* urgency on the first has magnitude 0.75 * u2_p * 0.5
C14_Witness ==
    /\ pc = "step_particles"
    /\ LET p == View(eng_state[cur]).p
           cfg == inp[cur].cfg
           D == Cdist(p, p)[1][2]
       IN  /\ Len(p) = 2
           /\ ExactDistance(p[1], p[2])
           /\ D * 4 = cfg.u2_dopt
           /\ Norm(Urgency2(p, cfg, Ones(2, Dim))[1]) * 8 = 3 * cfg.u2_p

\* the distances 2^k units below u2_dopt, which halve toward 0
HalvingDistances(cfg) == {D \in {2 ^ k : k \in 0..14} : D < cfg.u2_dopt}

\* the magnitude of the personal-space urgency before noise on a particle
\* whose single neighbour is at distance D along the first axis, with
\* u2_p = W = 1; the urgency lies along that axis
SingleNeighbourForce(cfg, D) ==
    Abs(Urgency2(<<ZeroRow, [k \in 1..Dim |-> IF k = 1 THEN D ELSE 0]>>,
                 [cfg EXCEPT !.u2_p = Scale, !.uw = Ones(2, UwColumns)],
                 Ones(2, Dim))[1][1])

\* C15 as stated: the force of a single neighbour grows without bound as D
\* approaches 0: for every bound B (here 0.5, 1 and 2) there is a distance
\* 0 < D < u2_dopt at which the magnitude, with u2_p = W = 1, exceeds B
C15_GrowsWithoutBound ==
    pc = "step_particles" =>
        \A B \in {Scale \div 2, Scale, 2 * Scale} :
            \E D \in HalvingDistances(inp[cur].cfg) :
                SingleNeighbourForce(inp[cur].cfg, D) > B

\* C15 as amended: the force of a single neighbour stays bounded as D
\* approaches 0: at every distance 0 < D < u2_dopt its magnitude is at most
\* u2_p * W[i,1], and with u2_p = W = 1 it grows toward 1 as D halves
\* without exceeding it
C15_BoundedNearZero ==
    pc = "step_particles" =>
        LET p == View(eng_state[cur]).p
            cfg == inp[cur].cfg
            u == Urgency2(p, cfg, Ones(Len(p), Dim))
        IN  /\ (/\ Len(p) = 2
                /\ ExactDistance(p[1], p[2])
                /\ Cdist(p, p)[1][2] > 0
                /\ Cdist(p, p)[1][2] < cfg.u2_dopt) =>
                   \A i \in 1..2 : Norm(u[i]) <= Mul(cfg.u2_p, cfg.uw[i][2])
            /\ \A forces \in {{<<D, SingleNeighbourForce(cfg, D)>> :
                                   D \in HalvingDistances(cfg)}} :
                   \A f1, f2 \in forces :
                       /\ f1[2] <= Scale
                       /\ f1[1] < f2[1] => f1[2] >= f2[2]

\* two particles half of u2_dopt apart along the first axis are about to
\* step; the urgency on the first is half of u2_p * W[1,1], and at a
\* distance of one unit the force with u2_p = W = 1 is above 0.99
C15_Witness ==
    /\ pc = "step_particles"
    /\ LET p == View(eng_state[cur]).p
           cfg == inp[cur].cfg
       IN  /\ Len(p) = 2
           /\ p[1][2] = p[2][2]
           /\ Cdist(p, p)[1][2] * 2 = cfg.u2_dopt
           /\ Norm(Urgency2(p, cfg, Ones(2, Dim))[1]) * 2 = Mul(cfg.u2_p, cfg.uw[1][2])
           /\ SingleNeighbourForce(cfg, 1) * 100 > 99 * Scale

\* C16: for a particle with a single predator at a distance 0 < D <= u4_dmax
\* the predator-escape urgency before noise points from the predator to
\* the particle and has magnitude u4_p * W * (u4_dmax - D) / u4_dmax, W the
\* weight the engine applies to this urgency, up to the rounding of the
\* weighted distance vector; it is zero for D > u4_dmax
C16_PredatorEscape ==
    pc = "step_particles" =>
        LET st == View(eng_state[cur])
            cfg == inp[cur].cfg
            u == Urgency4(st.p, st.pred_p, cfg, Ones(Len(st.p), Dim))
        IN  Len(st.pred_p) = 1 =>
              \A i \in 1..Len(st.p) :
                LET D == Cdist(st.p, st.pred_p)[i][1]
                    slack == 4 + 2 * (cfg.u4_dmax \div Scale)
                                   * (1 + cfg.uw[i][4] \div Scale)
                IN  (ExactDistance(st.p[i], st.pred_p[1]) /\ D > 0) =>
                      /\ D <= cfg.u4_dmax =>
                           /\ Abs(Norm(u[i])
                                  - Mul(Mul(Quot(cfg.u4_dmax - D, cfg.u4_dmax),
                                            cfg.u4_p), cfg.uw[i][4])) <= slack
                           /\ PointsAlong(u[i], st.pred_p[1], st.p[i])
                      /\ D > cfg.u4_dmax => u[i] = ZeroRow

\* a particle with u4_p = W = 1 and a predator at distance 2 along the first
\* axis, u4_dmax being 5, is about to step: its urgency is (-0.6, 0)
C16_Witness ==
    /\ pc = "step_particles"
    /\ LET st == View(eng_state[cur])
           cfg == inp[cur].cfg
       IN  /\ Len(st.pred_p) = 1
           /\ cfg.u4_dmax = 5 * Scale /\ cfg.u4_p = Scale /\ cfg.uw[1][4] = Scale
           /\ st.pred_p[1][1] - st.p[1][1] = 2 * Scale
           /\ st.pred_p[1][2] = st.p[1][2]
           /\ Urgency4(st.p, st.pred_p, cfg, Ones(Len(st.p), Dim))[1]
                  = <<-3 * (Scale \div 5), 0>>

\* cfg with column c of uw multiplied by 2
DoubledColumn(cfg, c) ==
    [cfg EXCEPT !.uw = [i \in 1..Len(cfg.uw) |->
                          [k \in 1..Len(cfg.uw[i]) |->
                             IF k = c THEN 2 * cfg.uw[i][k] ELSE cfg.uw[i][k]]]]

\* the three urgencies before noise of particle positions and predators st
Urgencies(st, cfg) ==
    LET eps == Ones(Len(st.p), Dim)
    IN  <<Urgency1(st.p, cfg, eps), Urgency2(st.p, cfg, eps),
          Urgency4(st.p, st.pred_p, cfg, eps)>>

\* C17: the predator-escape urgency of particle i is scaled by column
\* index 2 of row i of W, the third column; no other column of W changes
\* it, and every column of W changes some urgency (where the urgencies
\* before weights are not zero)
C17_ThirdColumn ==
    pc = "step_particles" =>
        LET st == View(eng_state[cur])
            cfg == inp[cur].cfg
            eps == Ones(Len(st.p), Dim)
            vector == MatScale(MatMul(Urgency4Vector(st.p, st.pred_p, cfg), eps),
                               cfg.u4_p)
        IN  /\ Urgency4(st.p, st.pred_p, cfg, eps)
                   = MatScaleRows(vector, Column(cfg.uw, 3))
            /\ \A c \in 1..Len(cfg.uw[1]) \ {3} :
                   Urgency4(st.p, st.pred_p, DoubledColumn(cfg, c), eps)
                       = Urgency4(st.p, st.pred_p, cfg, eps)
            /\ (/\ Urgency1Vector(st.p, cfg) # Zeros(Len(st.p))
                /\ Urgency2Vector(st.p, cfg) # Zeros(Len(st.p))
                /\ vector # Zeros(Len(st.p))) =>
                   \A c \in 1..Len(cfg.uw[1]) :
                       Urgencies(st, DoubledColumn(cfg, c)) # Urgencies(st, cfg)

\* Engine(...) has raised for engine e, the last one the caller built
Rejected(e) ==
    /\ pc = "raised"
    /\ exc.type = "ValueError"
    /\ eng_state[e] # 0
    /\ \A e2 \in Engines : e2 > e => eng_state[e2] = 0

\* C18: when P, V and A do not all have the same shape, or W does not have
\* N rows, construction raises a ValueError that names the shapes of p, v,
\* a and uw, and the engine runs no step: run is not entered and the arrays
\* keep the values they were given
C18_ShapeMismatchRejected ==
    \A e \in Engines :
        LET i == inp[e]
        IN  (/\ eng_state[e] # 0
             /\ \/ Shape(i.p) # Shape(i.v)
                \/ Shape(i.p) # Shape(i.a)
                \/ Len(i.cfg.uw) # Len(i.p)) =>
                /\ Rejected(e)
                /\ exc = [type |-> "ValueError", p |-> Shape(i.p), v |-> Shape(i.v),
                          a |-> Shape(i.a), uw |-> Shape(i.cfg.uw)]
                /\ ~call[e].made
                /\ View(eng_state[e]) = [f \in FieldNames |-> i[f]]
                /\ draws = <<>>

\* construction has raised for a State whose a has a column less than p
\* and v, with a uw of the shape the engine asks for
C18_Witness ==
    /\ pc = "raised"
    /\ exc.type = "ValueError"
    /\ exc.p = exc.v
    /\ exc.a[1] = exc.p[1]
    /\ exc.a[2] = exc.p[2] - 1
    /\ exc.uw = <<exc.p[1], UwColumns>>

\* C19: W has K = 3 columns: construction accepts a W of shape (N, 3) when
\* P, V and A share shape (N, d), and rejects a W of N rows with any other
\* number of columns
C19_ThreeColumns ==
    \A e \in Engines :
        LET i == inp[e]
        IN  (/\ eng_state[e] # 0
             /\ Shape(i.p) = Shape(i.v)
             /\ Shape(i.p) = Shape(i.a)
             /\ Len(i.cfg.uw) = Len(i.p)) =>
                (Rejected(e) <=> Shape(i.cfg.uw)[2] # 3)

\* the parameters of engine e and of its run that no simulation is meant
\* to run with
InvalidParameters(e) ==
    \/ inp[e].cfg.v_decay <= 0
    \/ inp[e].cfg.v_decay > Scale
    \/ inp[e].cfg.a_max <= 0
    \/ inp[e].cfg.u_max <= 0
    \/ call[e].args.timestep <= 0
    \/ call[e].args.iterations < 0

\* C20: invalid parameters (v_decay outside (0, 1], a_max <= 0, u_max <= 0,
\* timestep <= 0, iterations < 0) are rejected with an error at
\* construction or at run entry: once run is entered with them an error
\* has been raised, no step is taken and no history is returned
C20_InvalidRejected ==
    \A e \in Engines :
        (call[e].made /\ InvalidParameters(e)) =>
            /\ pc = "raised"
            /\ ~result[e].returned
            /\ Recorded(e) = <<>>

\* the result of engine e has an urgency history
HasUrgencies(e) == "urgencies" \in DOMAIN result[e]

\* C21: a run called with return_urgency_vectors = true records one urgency
\* tensor of shape (3, N, d) with each recorded snapshot, so that the
\* returned urgency history is as long as the state history; called with
\* the flag false it produces the state history only
C21_UrgencyHistory ==
    \A e \in Engines : \A flag \in BOOLEAN :
        (call[e].made /\ <<"return_urgency_vectors", flag>> \in call[e].kwargs) =>
            /\ pc # "raised"
            /\ result[e].returned =>
                  IF flag
                  THEN /\ HasUrgencies(e)
                       /\ Len(result[e].urgencies) = Len(result[e].states)
                       /\ \A h \in 1..Len(result[e].urgencies) :
                              /\ Len(result[e].urgencies[h]) = 3
                              /\ \A u \in 1..3 :
                                     Shape(result[e].urgencies[h][u]) = Shape(inp[e].p)
                  ELSE ~HasUrgencies(e)

\* the lists repacked for engine e are the transposition of its history
Transposed(e) ==
    LET history == HistoryValues(e)
        H == Len(history)
        N == Len(inp[e].p)
        M == Len(inp[e].pred_p)
        r == repacked[e]
    IN  /\ r.particles =>
              /\ H >= 1
              /\ \A list \in {r.p_histories, r.v_histories, r.a_histories} :
                     /\ Len(list) = N
                     /\ \A i \in 1..N : Shape(arrays[list[i]]) = <<H, Dim>>
              /\ \A i \in 1..N : \A h \in 1..H :
                     /\ arrays[r.p_histories[i]][h] = history[h].p[i]
                     /\ arrays[r.v_histories[i]][h] = history[h].v[i]
                     /\ arrays[r.a_histories[i]][h] = history[h].a[i]
        /\ r.predators =>
              /\ Len(r.predator_histories) = M
              /\ \A k \in 1..M :
                     /\ Shape(arrays[r.predator_histories[k]]) = <<H, Dim>>
                     /\ \A h \in 1..H :
                            arrays[r.predator_histories[k]][h] = history[h].pred_p[k]

\* a step that repacks changes no snapshot and no engine's state
RepackKeepsHistory ==
    repacked' # repacked =>
        /\ result' = result
        /\ \A o \in SnapshotObjs \cup LiveObjs : ViewNext(o) = View(o)

\* C22: repacking a non-empty history of H snapshots is a transposition: N
\* position, velocity and acceleration arrays of H rows with
\* p_histories[i][h] = states[h].p[i], and M predator arrays with
\* predator_histories[k][h] = states[h].pred_p[k], in the order of the
\* particles and of the snapshots; the history itself is not modified
C22_RepackTransposes ==
    /\ [](\A e \in Engines : Transposed(e))
    /\ [][RepackKeepsHistory]_vars

\* a history of three snapshots of two particles and a predator, all
\* moving, has been repacked
C22_Witness ==
    \E e \in Engines :
        /\ repacked[e].particles /\ repacked[e].predators
        /\ Len(repacked[e].p_histories) = 2
        /\ Len(repacked[e].predator_histories) = 1
        /\ Len(result[e].states) = 3
        /\ \A ids \in {repacked[e].p_histories, repacked[e].predator_histories} :
               /\ arrays[ids[1]][1] # arrays[ids[1]][2]
               /\ arrays[ids[1]][2] # arrays[ids[1]][3]
        /\ arrays[repacked[e].p_histories[1]] # arrays[repacked[e].p_histories[2]]

\* a particle sub-step takes the acceleration from the positions it starts
\* with, clips it and multiplies it by its noise, then decays the velocity,
\* adds the new acceleration, clips, and moves the particles with the
\* velocity it has just clipped
ParticleStepOrder ==
    (pc = "step_particles" /\ pc' = "step_predators") =>
        \A before \in {View(eng_state[cur])} :
        \A after \in {ViewNext(eng_state[cur])} :
        \A cfg \in {inp[cur].cfg} :
        \A u \in {step_particles(before, cfg, args.timestep, eng_rand[cur])} :
            /\ after.p = MatAdd(before.p, MatScale(after.v, args.timestep))
            /\ after.v = inplace_clip_by_abs(
                             MatAdd(MatScale(before.v, Pow(cfg.v_decay, args.timestep)),
                                    MatScale(after.a, args.timestep)),
                             cfg.v_max)
            /\ after.a = MatMul(
                             inplace_clip_by_abs(
                                 MatScale(MatQuot(MatAdd(MatAdd(u.u1, u.u2), u.u4),
                                                  cfg.u_max), cfg.a_max),
                                 cfg.a_max),
                             gen_epsilon_matrix(
                                 bitgen,
                                 RngAfter(bitgen, eng_rand[cur], 3 * Size(Shape(before.p))),
                                 Shape(before.p)))

\* C23: within a step the particle updates happen in the order
\* acceleration from the positions at the start of the step, clip of A,
\* noise on A, decay of V, V += A * timestep, clip of V, P += V * timestep:
\* P_after = P_before + V_after * timestep for every particle
C23_StepOrder == [][ParticleStepOrder]_vars

\* the particle sub-step of a second iteration has acted: the velocity has
\* changed and the particles have moved with the new velocity, not with
\* the one they had
C23_Witness ==
    /\ pc = "step_predators"
    /\ iteration = 2
    /\ args.skip_initial_states = 0
    /\ LET before == View(states[Len(states)])
           after == View(eng_state[cur])
       IN  /\ before.v # Zeros(Len(before.v))
           /\ after.v # before.v
           /\ after.p = MatAdd(before.p, MatScale(after.v, args.timestep))
           /\ after.p # MatAdd(before.p, MatScale(before.v, args.timestep))

\* a predator sub-step multiplies the acceleration by its noise, adds it
\* to the velocity and the velocity to the position, and leaves the
\* particles alone
PredatorStepKinematics ==
    (pc = "step_predators" /\ pc' = "record") =>
        \A before \in {View(eng_state[cur])} :
        \A after \in {ViewNext(eng_state[cur])} :
            /\ after.pred_a = MatMul(before.pred_a,
                                     gen_epsilon_matrix(bitgen, eng_rand[cur],
                                                        Shape(before.pred_a)))
            /\ after.pred_v = MatAdd(before.pred_v,
                                     MatScale(after.pred_a, args.timestep))
            /\ after.pred_p = MatAdd(before.pred_p,
                                     MatScale(after.pred_v, args.timestep))
            /\ after.p = before.p /\ after.v = before.v /\ after.a = before.a

\* predators that start without acceleration keep their velocity in every
\* snapshot and are, after t steps, t * V'_0 * timestep from their start
PredatorsCoast ==
    \A e \in Engines :
        (result[e].returned /\ inp[e].pred_a = Zeros(Len(inp[e].pred_a))) =>
            \A h \in 1..Len(result[e].states) :
                LET s == View(result[e].states[h])
                    t == IterationOf(h, call[e].args.skip_initial_states)
                IN  /\ s.pred_a = inp[e].pred_a
                    /\ s.pred_v = inp[e].pred_v
                    /\ s.pred_p = MatAdd(inp[e].pred_p,
                                         MatScale(MatScale(inp[e].pred_v,
                                                           call[e].args.timestep),
                                                  t * Scale))

\* C24: predators are never decayed, clipped or steered: each step does
\* A' := A' * noise, V' := V' + A' * timestep, P' := P' + V' * timestep, so
\* with A' = 0 at the start the predator velocity is the same in every
\* snapshot, even with a norm above v_max, and the position after t steps
\* is P'_0 + t * V'_0 * timestep
C24_PredatorKinematics == []PredatorsCoast /\ [][PredatorStepKinematics]_vars

\* a run of two iterations has returned the snapshots of a predator that
\* coasts faster than the particles' v_max
C24_Witness ==
    \E e \in Engines :
        /\ result[e].returned
        /\ Len(result[e].states) = 3
        /\ Len(inp[e].pred_p) >= 1
        /\ inp[e].pred_a = Zeros(Len(inp[e].pred_a))
        /\ SumSq(inp[e].pred_v[1]) > SumSq(<<inp[e].cfg.v_max, 0>>)
        /\ View(result[e].states[3]).pred_v = inp[e].pred_v
        /\ View(result[e].states[3]).pred_p # View(result[e].states[2]).pred_p

\* the acceleration a particle sub-step gives the particles of st from
\* generator state s when its escape urgency sees the predators at pred_p
AccelerationSeeing(st, pred_p, cfg, timestep, s) ==
    LET c1 == calculate_urgency1(st, cfg, s)
        c2 == calculate_urgency2(st, cfg, c1.rand)
        c4 == calculate_urgency4([st EXCEPT !.pred_p = pred_p], cfg, c2.rand)
    IN  apply_urgency(st, cfg, timestep, MatAdd(MatAdd(c1.u, c2.u), c4.u), c4.rand).a

\* the particle sub-step comes first in an iteration and leaves the
\* predators where they are; its escape urgency sees them where the
\* iteration before left them (the last snapshot, when that iteration was
\* recorded) or where the engine was given them (in the first iteration)
ParticlesSeePreviousPredators ==
    /\ (pc \in {"caller", "record"} /\ pc' \notin {"caller", "raised", "return"}) =>
           pc' = "step_particles"
    /\ pc = "step_particles" =>
           /\ pc' = "step_predators"
           /\ \A before \in {View(eng_state[cur])} :
              \A after \in {ViewNext(eng_state[cur])} :
                  /\ after.pred_p = before.pred_p
                  /\ states # <<>> =>
                         before.pred_p = View(states[Len(states)]).pred_p
                  /\ iteration = 1 => before.pred_p = inp[cur].pred_p
                  /\ after.a = AccelerationSeeing(before, before.pred_p, inp[cur].cfg,
                                                  args.timestep, eng_rand[cur])
    /\ pc = "step_predators" => pc' = "record"

\* C25: in every iteration the particle sub-step runs before the predator
\* sub-step, so the predator-escape urgency of iteration i is computed from
\* the predator positions at the end of iteration i - 1 (the initial ones
\* for i = 1), not from those the predators reach in iteration i
C25_ParticlesBeforePredators == [][ParticlesSeePreviousPredators]_vars

\* the particle sub-step of a second iteration has acted on predators that
\* have moved in the first, are in range, and would give another escape
\* vector from where they go next
C25_Witness ==
    /\ pc = "step_predators"
    /\ iteration = 2
    /\ args.skip_initial_states = 0
    /\ LET before == View(states[Len(states)])
           after == View(eng_state[cur])
           ahead == MatAdd(before.pred_p, MatScale(before.pred_v, args.timestep))
           escape == Urgency4Vector(before.p, before.pred_p, inp[cur].cfg)
       IN  /\ before.pred_p # inp[cur].pred_p
           /\ after.pred_p = before.pred_p
           /\ escape # Zeros(Len(before.p))
           /\ escape # Urgency4Vector(before.p, ahead, inp[cur].cfg)
           /\ after.a # Zeros(Len(before.p))

\* the sub-steps the executing run has completed: <<particle, predator>>
SubStepsDone ==
    IF pc = "step_particles" THEN <<iteration - 1, iteration - 1>>
    ELSE IF pc = "step_predators" THEN <<iteration, iteration - 1>>
    ELSE IF pc = "record" THEN <<iteration, iteration>>
    ELSE IF args.iterations >= 0 THEN <<args.iterations, args.iterations>>
    ELSE <<0, 0>>

\* the generator of the executing run has made the draws of exactly that
\* many sub-steps, four (N, d) matrices per particle sub-step and one
\* (M, d) matrix per predator sub-step, and the run is about to return only
\* after the last iteration
StepsCounted ==
    cur # 0 =>
        LET done == SubStepsDone
            N == Len(inp[cur].p)
            M == Len(inp[cur].pred_p)
        IN  /\ eng_rand[cur] = RngAfter(bitgen, SeedState,
                                        done[1] * 4 * N * Dim + done[2] * M * Dim)
            /\ pc # "return" => iteration \in 1..args.iterations
            /\ (pc = "return" /\ args.iterations >= 1) => iteration = args.iterations

\* the sub-steps alternate, and a snapshot is recorded at run entry or
\* after the predator sub-step of an iteration, as a copy of the state
RecordsAfterBothSubSteps ==
    /\ pc = "step_particles" =>
           (pc' = "step_predators" /\ states' = states /\ iteration' = iteration)
    /\ pc = "step_predators" =>
           (pc' = "record" /\ states' = states /\ iteration' = iteration)
    /\ pc = "record" =>
           /\ pc' \in {"step_particles", "return"}
           /\ iteration' = IF pc' = "return" THEN iteration ELSE iteration + 1
           /\ states' # states =>
                  /\ Len(states') = Len(states) + 1
                  /\ ViewNext(states'[Len(states')]) = View(eng_state[cur])

\* C26: for every iterations >= 0, run terminates after exactly
\* `iterations` particle sub-steps and `iterations` predator sub-steps,
\* alternating particle then predator, and a snapshot is only recorded
\* after both sub-steps of an iteration have completed
C26_RunTerminates ==
    /\ \A e \in Engines : (cur = e) ~> result[e].returned
    /\ []StepsCounted
    /\ [][RecordsAfterBothSubSteps]_vars

\* a run of two iterations with a predator has made all its sub-steps and
\* returned three snapshots
C26_Witness ==
    \E e \in Engines :
        /\ result[e].returned
        /\ call[e].args.iterations = 2
        /\ Len(inp[e].pred_p) = 1
        /\ Len(result[e].states) = 3
        /\ eng_rand[e] = RngAfter(bitgen, SeedState,
                                  2 * (4 * Len(inp[e].p) + 1) * Dim)
        /\ eng_rand[e] # RngAfter(bitgen, SeedState,
                                  (4 * Len(inp[e].p) + 1) * Dim)

\* the contents of the snapshots of a list of State objects
ValuesOf(ids) == Tab([h \in 1..Len(ids) |-> View(ids[h])])

\* C27: runs on one Engine compose: run(iterations=a) and then
\* run(iterations=b) on the same Engine, with the same timestep and no
\* skipped states, give, with the duplicated joining snapshot removed, the
\* snapshots and the final state of one run(iterations=a+b) on a fresh
\* Engine built from equal inputs; the second run starts from the final
\* state of the first and continues its random stream
C27_RunsCompose ==
    (/\ earlier[1] # <<>>
     /\ result[1].returned /\ result[2].returned
     /\ inp[1] = inp[2]
     /\ call[2].args.iterations = Len(earlier[1][1]) - 1 + call[1].args.iterations) =>
        LET first == ValuesOf(earlier[1][1])
            second == HistoryValues(1)
            whole == HistoryValues(2)
        IN  /\ second[1] = first[Len(first)]
            /\ first \o Tail(second) = whole
            /\ View(eng_state[1]) = View(eng_state[2])
            /\ eng_rand[1] = eng_rand[2]

\* an engine has run for one iteration and then for two, another for
\* three, and the state changed in every iteration
C27_Witness ==
    /\ earlier[1] # <<>>
    /\ result[1].returned /\ result[2].returned
    /\ Len(earlier[1][1]) = 2
    /\ call[1].args.iterations = MaxIter
    /\ call[2].args.iterations = MaxIter + 1
    /\ \A h \in 1..(MaxIter + 1) : HistoryValues(2)[h] # HistoryValues(2)[h + 1]
    /\ ValuesOf(earlier[1][1]) \o Tail(HistoryValues(1)) = HistoryValues(2)

\* a run with 0 <= iterations < skip_initial_states returns no snapshot,
\* yet the engine has made every step: its generator has made the draws of
\* `iterations` iterations and its state is the last state of the run that
\* skips nothing
SkipsEverything ==
    \A e1 \in Engines :
        LET a1 == call[e1].args
            N == Len(inp[e1].p)
            M == Len(inp[e1].pred_p)
        IN  (/\ result[e1].returned
             /\ a1.iterations >= 0
             /\ a1.skip_initial_states > a1.iterations) =>
                /\ result[e1].states = <<>>
                /\ eng_rand[e1] = RngAfter(bitgen, SeedState,
                                           a1.iterations * (4 * N + M) * Dim)
                /\ \A e2 \in Engines :
                       (/\ result[e2].returned
                        /\ inp[e2] = inp[e1]
                        /\ call[e2].args = [a1 EXCEPT !.skip_initial_states = 0]) =>
                           View(eng_state[e1]) =
                               HistoryValues(e2)[Len(HistoryValues(e2))]

\* a run with skip_initial_states <= 0 returns the initial state followed
\* by the state after every iteration, as the run with 0 does
SkipsNothing ==
    \A e1 \in Engines :
        LET a1 == call[e1].args
        IN  (result[e1].returned /\ a1.skip_initial_states <= 0) =>
                /\ Len(result[e1].states) =
                       1 + (IF a1.iterations >= 0 THEN a1.iterations ELSE 0)
                /\ HistoryValues(e1)[1] = [f \in FieldNames |-> inp[e1][f]]
                /\ \A e2 \in Engines :
                       (/\ result[e2].returned
                        /\ inp[e2] = inp[e1]
                        /\ call[e2].args = [a1 EXCEPT !.skip_initial_states = 0]) =>
                           HistoryValues(e1) = HistoryValues(e2)

PredatorHistory(e) ==
    Tab([h \in 1..Len(result[e].states) |->
        [f \in {"pred_p", "pred_v", "pred_a"} |-> View(result[e].states[h])[f]]])

\* C29: predator trajectories do not depend on the particles: two runs with
\* equal N, d, M, timestep and initial predator state, but other initial
\* particle P, V, A or other Config values, give the same pred_p, pred_v
\* and pred_a in every snapshot
C29_PredatorsIndependent ==
    \A e1, e2 \in Engines :
        (/\ result[e1].returned /\ result[e2].returned
         /\ Shape(inp[e1].p) = Shape(inp[e2].p)
         /\ \A f \in {"pred_p", "pred_v", "pred_a", "timestep"} :
                inp[e1][f] = inp[e2][f]
         /\ call[e1].args = call[e2].args)
        => PredatorHistory(e1) = PredatorHistory(e2)

\* two runs of two iterations with an accelerated predator have returned:
\* the particles moved differently, the predator's acceleration changed
\* with its noise, in the same way in both
C29_Witness ==
    /\ result[1].returned /\ result[2].returned
    /\ call[1].args = call[2].args
    /\ Len(result[1].states) = 3
    /\ Len(inp[1].pred_p) >= 1
    /\ inp[1] # inp[2]
    /\ HistoryValues(1)[3].p # HistoryValues(2)[3].p
    /\ PredatorHistory(1)[2].pred_a # PredatorHistory(1)[1].pred_a
    /\ PredatorHistory(1)[3].pred_a # PredatorHistory(1)[2].pred_a
    /\ PredatorHistory(1) = PredatorHistory(2)

\* row i of x followed by the rows of y that differ from it
Apart(x, i, y) == <<x[i]>> \o SelectSeq(y, LAMBDA r : r # x[i])

====
